---------------------------- MODULE Spec2Model ----------------------------
(***************************************************************************)
(* A model of the two container codecs of the repository:                  *)
(*   - the Matroska muxer      (src/matroskaenc.c)                         *)
(*   - the MXF demuxer         (src/mxf.c)                                 *)
(*                                                                         *)
(* Specifications                                                          *)
(*   SpecSize : put_ebml_size applied to one (size, minbytes) input        *)
(*   SpecEbml : the EBML writers driven by arbitrary call sequences        *)
(*   SpecSeek : one SeekHead: start, add entries, write                    *)
(*   Spec     : a muxer run  header -> packets -> trailer                  *)
(*   SpecMxf  : a demuxer run  read_header -> read_packet*                 *)
(***************************************************************************)
EXTENDS Integers, Sequences, FiniteSets, TLC

VARIABLES
    pb,      \* ByteIOContext of the muxer: [file, pos, ub]
    sz,      \* SpecSize: the input of put_ebml_size and whether it was applied
    eb,      \* SpecEbml: open masters, closed masters, the last call
    sk,      \* SpecSeek: the seek head under construction and its stage
    mk,      \* Spec: the muxer run (MatroskaMuxContext, streams, call log)
    mx       \* SpecMxf: the demuxer run (MXFContext, input file, streams)

vars == <<pb, sz, eb, sk, mk, mx>>

(***************************************************************************)
(* uint64_t.  A value is the vector of its 64 bits, bit 0 the least        *)
(* significant, so that sizes up to 2^64-1 keep their width.               *)
(***************************************************************************)
Bit == 0 .. 63

\* the bit vector f with its 64 bits written out: the same function, held
\* by TLC as its values and not as the expression that yields them
Bits(f) == f @@ <<>>

\* the uint64_t that a small C integer n (|n| < 2^31) converts to (two's complement)
U64Of(n) ==
    Bits([i \in Bit |->
            IF n >= 0
            THEN (IF i < 31 THEN (n \div (2 ^ i)) % 2 ELSE 0)
            ELSE 1 - (IF i < 31 THEN ((-n - 1) \div (2 ^ i)) % 2 ELSE 0)])

\* v >> k, for 0 <= k < 64
Shr(v, k) == Bits([i \in Bit |-> IF i + k <= 63 THEN v[i + k] ELSE 0])

\* 1ULL << k, for 0 <= k < 64
Shl1(k) == Bits([i \in Bit |-> IF i = k THEN 1 ELSE 0])

\* a | b
Or64(a, b) == Bits([i \in Bit |-> IF a[i] = 1 \/ b[i] = 1 THEN 1 ELSE 0])

IsZero(v) == \A i \in Bit : v[i] = 0

\* (uint8_t)(v >> 8*i): the byte put_byte() writes
Byte(v, i) ==
      v[8*i]          + 2 * v[8*i + 1]  + 4 * v[8*i + 2]  + 8 * v[8*i + 3]
    + 16 * v[8*i + 4] + 32 * v[8*i + 5] + 64 * v[8*i + 6] + 128 * v[8*i + 7]

\* the bytes k .. 7 of a + b, c being the carry into byte k
RECURSIVE SumBytes(_, _, _, _)
SumBytes(a, b, k, c) ==
    IF k = 8 THEN <<>>
    ELSE <<(Byte(a, k) + Byte(b, k) + c) % 256>>
             \o SumBytes(a, b, k + 1, (Byte(a, k) + Byte(b, k) + c) \div 256)

\* the uint64_t whose bytes are bs, the least significant first
FromBytes(bs) ==
    Bits([i \in Bit |-> (bs[(i \div 8) + 1] \div (2 ^ (i % 8))) % 2])

\* a + b modulo 2^64
Add64(a, b) == FromBytes(SumBytes(a, b, 0, 0))

\* a < b, unsigned
Lt64(a, b) == \E i \in Bit : a[i] < b[i] /\ \A j \in Bit : j > i => a[j] = b[j]

\* the value of a uint64_t below 2^31 as a number
Low31(v) ==
    Byte(v, 0) + 256 * Byte(v, 1) + 65536 * Byte(v, 2)
        + 16777216 * (Byte(v, 3) % 128)

(***************************************************************************)
(* ByteIOContext, written.  file maps the offsets whose byte the model     *)
(* knows to that byte; pos is the cursor (url_ftell).  ub records that the *)
(* code ran into undefined behaviour while writing; the model does not     *)
(* follow the writes after that: every writer leaves such a stream as it   *)
(* is.                                                                     *)
(***************************************************************************)
EmptyFile == [o \in {} |-> 0]

\* the output stream: the bytes written, the cursor and whether the writer
\* met undefined behaviour.  Beside the stream, the master elements that
\* start_ebml_master opened and end_ebml_master did not close yet (open, in
\* the order they were opened, each [id, start]), whether every
\* end_ebml_master call closed the last of them (lifo), and the identifiers
\* of the masters open at the last mkv_write_block call (at_block)
NewIO == [file |-> EmptyFile, pos |-> 0, ub |-> FALSE,
          open |-> <<>>, lifo |-> TRUE, at_block |-> <<>>]

\* put_byte() for each byte of bs, in order
put_buffer(io, bs) ==
    LET n == Len(bs)
        w == io.pos .. (io.pos + n - 1)
    IN  IF io.ub THEN io ELSE
        [io EXCEPT
            !.file = [o \in w |-> bs[o - io.pos + 1]] @@ io.file,
            !.pos  = io.pos + n]

\* put_buffer() of n bytes of payload whose value the model does not follow
put_opaque(io, n) ==
    LET w == io.pos .. (io.pos + n - 1)
    IN  IF io.ub THEN io ELSE
        [io EXCEPT
            !.file = [o \in (DOMAIN io.file) \ w |-> io.file[o]],
            !.pos  = io.pos + n]

url_fseek(io, offset) == IF io.ub THEN io ELSE [io EXCEPT !.pos = offset]

\* the n bytes at offset o, or <<>> when one of them is not a known byte
BytesAt(io, o, n) ==
    IF \A k \in o .. (o + n - 1) : k \in DOMAIN io.file
    THEN [k \in 1 .. n |-> io.file[o + k - 1]]
    ELSE <<>>

\* the bytes (v >> 8*(n-1)), ..., (v >> 8), v : a big-endian write of n bytes
BigEndian(v, n) == [k \in 1 .. n |-> Byte(v, n - k)]

(***************************************************************************)
(* EBML identifiers and sizes                                              *)
(***************************************************************************)
\* C's integer division, which truncates towards zero
CDiv(a, b) == IF a >= 0 THEN a \div b ELSE -((-a) \div b)

RECURSIVE av_log2(_)
av_log2(n) == IF n <= 1 THEN 0 ELSE 1 + av_log2(n \div 2)

ebml_id_size(id) == CDiv(av_log2(id + 1) - 1, 7) + 1

put_ebml_id(io, id) ==
    LET n == ebml_id_size(id)
    IN  put_buffer(io, [k \in 1 .. n |-> (id \div (256 ^ (n - k))) % 256])

FFMIN(a, b) == IF a < b THEN a ELSE b
FFMAX(a, b) == IF a > b THEN a ELSE b

\* value |= 1ULL << i for i in 0 .. bytes*7
UnknownValue(bytes) == [i \in Bit |-> IF i < bytes * 7 + 1 THEN 1 ELSE 0]

put_ebml_size_unknown(io, bytes) ==
    LET n == FFMIN(bytes, 8)
    IN  put_buffer(io, BigEndian(UnknownValue(n), n))

\* the loop of ebml_size_bytes; it leaves with 10 when the next shift count
\* would be 70 >= 64, which C does not define
RECURSIVE size_bytes_loop(_, _)
size_bytes_loop(v, bytes) ==
    IF bytes * 7 >= 64 THEN bytes
    ELSE IF ~IsZero(Shr(v, bytes * 7)) THEN size_bytes_loop(v, bytes + 1)
    ELSE bytes

\* mutant: the loop tests size, not size+1
ebml_size_bytes_no_increment(size) == size_bytes_loop(size, 1)

ebml_size_bytes(size) == size_bytes_loop(Add64(size, U64Of(1)), 1)

\* (1ULL<<56)-1
MaxDefinedSize == [i \in Bit |-> IF i < 56 THEN 1 ELSE 0]

put_ebml_size(io, size, minbytes) ==
    LET bytes == FFMAX(minbytes, ebml_size_bytes(size))
    IN  IF io.ub THEN io
        ELSE IF ebml_size_bytes(size) >= 10 THEN [io EXCEPT !.ub = TRUE]
        ELSE IF ~Lt64(size, MaxDefinedSize) THEN put_ebml_size_unknown(io, 1)
        ELSE put_buffer(io, BigEndian(Or64(size, Shl1(bytes * 7)), bytes))

\* a - b modulo 2^64
Sub64(a, b) ==
    Add64(a, Add64(Bits([i \in Bit |-> 1 - b[i]]), U64Of(1)))

(***************************************************************************)
(* Element identifiers (matroska.h)                                        *)
(***************************************************************************)
EBML_ID_VOID               == \hEC
MATROSKA_ID_SEEKHEAD       == \h114D9B74
MATROSKA_ID_SEEKENTRY      == \h4DBB
MATROSKA_ID_SEEKID         == \h53AB
MATROSKA_ID_SEEKPOSITION   == \h53AC
MATROSKA_ID_INFO           == \h1549A966
MATROSKA_ID_TRACKS         == \h1654AE6B
MATROSKA_ID_CUES           == \h1C53BB6B
MATROSKA_ID_CLUSTER        == \h1F43B675
MATROSKA_ID_CLUSTERTIMECODE == \hE7
MATROSKA_ID_BLOCKGROUP     == \hA0

(***************************************************************************)
(* Typed writers, Void and master elements                                 *)
(***************************************************************************)
\* the loop of put_ebml_uint; it leaves with 8 when the next shift count
\* would be 64, which C does not define (val >= 2^56)
RECURSIVE uint_bytes_loop(_, _)
uint_bytes_loop(val, bytes) ==
    IF bytes * 8 >= 64 THEN bytes
    ELSE IF ~IsZero(Shr(val, bytes * 8)) THEN uint_bytes_loop(val, bytes + 1)
    ELSE bytes

put_ebml_uint(io, elementid, val) ==
    LET bytes == uint_bytes_loop(val, 1)
    IN  IF io.ub THEN io
        ELSE IF bytes >= 8 THEN [io EXCEPT !.ub = TRUE]
        ELSE put_buffer(
                 put_ebml_size(put_ebml_id(io, elementid), U64Of(bytes), 0),
                 BigEndian(val, bytes))

\* put_ebml_binary of `size` bytes whose value the model does not follow
put_ebml_binary(io, elementid, size) ==
    put_opaque(put_ebml_size(put_ebml_id(io, elementid), U64Of(size), 0), size)

\* put_ebml_binary of the known bytes bs (put_ebml_string passes strlen(str))
put_ebml_string(io, elementid, bs) ==
    put_buffer(put_ebml_size(put_ebml_id(io, elementid), U64Of(Len(bs)), 0), bs)

put_ebml_void(io, size) ==
    IF size < 2 THEN io
    ELSE LET a == put_ebml_id(io, EBML_ID_VOID)
             b == IF size < 10
                  THEN put_ebml_size(a, U64Of(size - 1), 0)
                  ELSE put_ebml_size(a, U64Of(size - 9), 8)
         IN  url_fseek(b, io.pos + size)

\* the stream after the call; the offset returned is its pos
start_ebml_master(io, elementid) ==
    LET r == put_ebml_size_unknown(put_ebml_id(io, elementid), 8)
    IN  IF r.ub THEN r
        ELSE [r EXCEPT !.open = Append(@, [id |-> elementid, start |-> r.pos])]

\* mutant: the size is rewritten without the minimum width of 8 bytes
end_ebml_master_no_minbytes(io, start) ==
    url_fseek(put_ebml_size(url_fseek(io, start - 8), U64Of(io.pos - start), 0), io.pos)

end_ebml_master(io, start) ==
    LET r == url_fseek(put_ebml_size(url_fseek(io, start - 8),
                                     U64Of(io.pos - start), 8), io.pos)
        IsOther(m) == m.start # start
    IN  IF r.ub THEN r
        ELSE [r EXCEPT !.open = SelectSeq(@, IsOther),
                       !.lifo = /\ @
                                /\ io.open # <<>>
                                /\ io.open[Len(io.open)].start = start]

(***************************************************************************)
(* SeekHead (mkv_seekhead): filepos, segment_offset, reserved_size,        *)
(* max_entries and the entries; num_entries is Len(entries).               *)
(***************************************************************************)
\* [sh, io]: the seek head av_mallocz'ed and filled in, and the stream after
mkv_start_seekhead(io, segment_offset, numelements) ==
    LET new == [filepos |-> 0, segment_offset |-> segment_offset,
                reserved_size |-> 0, max_entries |-> 0, entries |-> <<>>]
    IN  IF numelements > 0
        THEN [sh |-> [new EXCEPT !.filepos = io.pos,
                                 !.reserved_size = numelements * 28 + 13,
                                 !.max_entries = numelements],
              io |-> put_ebml_void(io, numelements * 28 + 13)]
        ELSE [sh |-> new, io |-> io]

\* mutant: the position is stored as an absolute offset
mkv_add_seekhead_entry_absolute(seekhead, elementid, filepos) ==
    IF seekhead.max_entries > 0 /\ seekhead.max_entries <= Len(seekhead.entries)
    THEN [ret |-> -1, sh |-> seekhead]
    ELSE [ret |-> 0,
          sh  |-> [seekhead EXCEPT !.entries =
                      Append(@, [elementid  |-> elementid,
                                 segmentpos |-> filepos])]]

\* mutant: one entry more than was reserved is accepted
mkv_add_seekhead_entry_one_more(seekhead, elementid, filepos) ==
    IF seekhead.max_entries > 0 /\ seekhead.max_entries < Len(seekhead.entries)
    THEN [ret |-> -1, sh |-> seekhead]
    ELSE [ret |-> 0,
          sh  |-> [seekhead EXCEPT !.entries =
                      Append(@, [elementid  |-> elementid,
                                 segmentpos |-> Sub64(filepos, U64Of(seekhead.segment_offset))])]]

\* [ret, sh]; filepos is a uint64_t
mkv_add_seekhead_entry(seekhead, elementid, filepos) ==
    IF seekhead.max_entries > 0 /\ seekhead.max_entries <= Len(seekhead.entries)
    THEN [ret |-> -1, sh |-> seekhead]
    ELSE [ret |-> 0,
          sh  |-> [seekhead EXCEPT !.entries =
                      Append(@, [elementid  |-> elementid,
                                 segmentpos |-> Sub64(filepos, U64Of(seekhead.segment_offset))])]]

\* one SeekEntry master
put_seek_entry(io, entry) ==
    LET a == start_ebml_master(io, MATROSKA_ID_SEEKENTRY)
        b == put_ebml_id(a, MATROSKA_ID_SEEKID)
        c == put_ebml_size(b, U64Of(ebml_id_size(entry.elementid)), 0)
        d == put_ebml_id(c, entry.elementid)
        e == put_ebml_uint(d, MATROSKA_ID_SEEKPOSITION, entry.segmentpos)
    IN  end_ebml_master(e, a.pos)

RECURSIVE put_seek_entries(_, _, _)
put_seek_entries(io, entries, i) ==
    IF io.ub \/ i > Len(entries) THEN io
    ELSE put_seek_entries(put_seek_entry(io, entries[i]), entries, i + 1)

\* [io, ret]: the stream after the call and the offset returned
mkv_write_seekhead(io, seekhead) ==
    LET currentpos == io.pos
        a == IF seekhead.reserved_size > 0 THEN url_fseek(io, seekhead.filepos) ELSE io
        m == start_ebml_master(a, MATROSKA_ID_SEEKHEAD)
        b == end_ebml_master(put_seek_entries(m, seekhead.entries, 1), m.pos)
    IN  IF seekhead.reserved_size > 0
        THEN LET remaining == seekhead.filepos + seekhead.reserved_size - b.pos
             IN  [io  |-> url_fseek(put_ebml_void(b, remaining), currentpos),
                  ret |-> seekhead.filepos]
        ELSE [io |-> b, ret |-> currentpos]

(***************************************************************************)
(* Reading an EBML size back, as a Matroska reader does: the number of     *)
(* leading zero bits of the first byte gives the width, the marker bit is  *)
(* dropped and the rest is read big-endian.                                *)
(***************************************************************************)
\* the width announced by a first byte, 0 for the byte 0
EbmlWidth(b0) ==
    IF b0 = 0 THEN 0 ELSE CHOOSE w \in 1 .. 8 : b0 \div (2 ^ (8 - w)) = 1

\* bit i of the big-endian number held by the bytes bs
NumBit(bs, i) ==
    IF i \div 8 < Len(bs) THEN (bs[Len(bs) - (i \div 8)] \div (2 ^ (i % 8))) % 2 ELSE 0

\* bs is one well-formed size field
EbmlSizeOk(bs) == Len(bs) >= 1 /\ EbmlWidth(bs[1]) = Len(bs)

EbmlDecode(bs) == [i \in Bit |-> IF i < 7 * Len(bs) THEN NumBit(bs, i) ELSE 0]

\* bs is the reserved "unknown size" pattern: every payload bit set
EbmlIsUnknown(bs) == \A i \in 0 .. (7 * Len(bs) - 1) : NumBit(bs, i) = 1

(***************************************************************************)
(* SpecSize: put_ebml_size on one input                                    *)
(***************************************************************************)
MaxSizeBit == 57

\* 2^k + d for the powers of two up to MaxSizeBit and d in -2 .. 1, and 0
SizeInputs ==
    {U64Of(0)} \cup
    {Add64(Shl1(k), U64Of(d)) : k \in 1 .. MaxSizeBit, d \in -2 .. 1}

IdleSz == [size |-> U64Of(0), minbytes |-> 0, done |-> FALSE]
NoCall == [op |-> "none", at |-> 0, n |-> 0]
IdleEb == [masters |-> <<>>, closed |-> <<>>, last |-> NoCall, ops |-> 0,
           voided |-> FALSE]
NoSeekhead ==
    [filepos |-> 0, segment_offset |-> 0, reserved_size |-> 0,
     max_entries |-> 0, entries |-> <<>>]
IdleSk == [stage |-> "idle", sh |-> NoSeekhead, k |-> 0, appends |-> 0,
           ret |-> 0, cur |-> 0, arg |-> [id |-> 0, filepos |-> U64Of(0)]]
IdleMk == [phase |-> "idle"]
IdleMx == [phase |-> "idle"]

InitSize ==
    /\ pb = NewIO
    /\ sz \in [size : SizeInputs, minbytes : 0 .. 8, done : {FALSE}]
    /\ eb = IdleEb
    /\ sk = IdleSk
    /\ mk = IdleMk
    /\ mx = IdleMx

EncodeSize ==
    /\ ~sz.done
    /\ pb' = put_ebml_size(pb, sz.size, sz.minbytes)
    /\ sz' = [sz EXCEPT !.done = TRUE]
    /\ UNCHANGED <<eb, sk, mk, mx>>

NextSize == EncodeSize

SpecSize == InitSize /\ [][NextSize]_vars

\* the sizes the claim is about: 0 .. 2^56 - 2
InClaimRange(s) == Lt64(s, MaxDefinedSize)

\* 2^(7n) - 1
AllOnes(n) == [i \in Bit |-> IF i < 7 * n THEN 1 ELSE 0]

\* the least n in 1..8 with s + 1 < 2^(7n)
LeastWidth(s) ==
    CHOOSE n \in 1 .. 8 :
        /\ Lt64(s, AllOnes(n))
        /\ \A m \in 1 .. (n - 1) : ~Lt64(s, AllOnes(m))

SizeWritten == BytesAt(pb, 0, pb.pos)

\* C10: for every size s in [0, 2^56-2] and every minbytes in 0..8,
\* put_ebml_size writes max(minbytes, least width of s) bytes, which are one
\* well-formed size field that decodes to s and is not the unknown-size pattern.
C10_SizeRoundTrip ==
    (sz.done /\ InClaimRange(sz.size)) =>
        /\ ~pb.ub
        /\ pb.pos = FFMAX(sz.minbytes, LeastWidth(sz.size))
        /\ Len(SizeWritten) = pb.pos
        /\ EbmlSizeOk(SizeWritten)
        /\ EbmlDecode(SizeWritten) = sz.size
        /\ ~EbmlIsUnknown(SizeWritten)

\* C10 witness: the largest size of the range, 2^56 - 2, was written with its
\* own width (8 bytes), and a small size was widened by minbytes
C10_Witness ==
    /\ sz.done
    /\ \/ sz.size = Add64(Shl1(56), U64Of(-2)) /\ sz.minbytes = 0 /\ pb.pos = 8
       \/ sz.size = U64Of(127) /\ sz.minbytes = 0 /\ pb.pos = 2


(***************************************************************************)
(* SpecEbml: the writers of the EBML layer called in any order on one      *)
(* stream.  eb.masters holds the offsets start_ebml_master returned and    *)
(* that were not closed yet; eb.closed records each end_ebml_master call:  *)
(* the offset it was given, the cursor when it was called and the cursor   *)
(* when it returned.  A run pads with at most one Void element.            *)
(***************************************************************************)
MaxOps   == 5
MaxVoid  == 11

MasterIds == {MATROSKA_ID_BLOCKGROUP, MATROSKA_ID_CLUSTER}

RemoveAt(s, i) == [k \in 1 .. (Len(s) - 1) |-> IF k < i THEN s[k] ELSE s[k + 1]]

InitEbml ==
    /\ pb = NewIO
    /\ sz = IdleSz
    /\ eb = IdleEb
    /\ sk = IdleSk
    /\ mk = IdleMk
    /\ mx = IdleMx

EbStartMaster ==
    /\ eb.ops < MaxOps
    /\ \E id \in MasterIds :
          /\ pb' = start_ebml_master(pb, id)
          /\ eb' = [eb EXCEPT !.masters = Append(@, pb'.pos),
                              !.ops = @ + 1,
                              !.last = [op |-> "start", at |-> pb.pos, n |-> 0]]
    /\ UNCHANGED <<sz, sk, mk, mx>>

EbEndMaster ==
    /\ eb.ops < MaxOps
    /\ \E i \in 1 .. Len(eb.masters) :
          /\ pb' = end_ebml_master(pb, eb.masters[i])
          /\ eb' = [eb EXCEPT !.masters = RemoveAt(@, i),
                              !.closed = Append(@, [start |-> eb.masters[i],
                                                    end   |-> pb.pos,
                                                    after |-> pb'.pos]),
                              !.ops = @ + 1,
                              !.last = [op |-> "end", at |-> pb.pos, n |-> 0]]
    /\ UNCHANGED <<sz, sk, mk, mx>>

EbPutUint ==
    /\ eb.ops < MaxOps
    /\ \E v \in {300} :
          /\ pb' = put_ebml_uint(pb, MATROSKA_ID_CLUSTERTIMECODE, U64Of(v))
          /\ eb' = [eb EXCEPT !.ops = @ + 1,
                              !.last = [op |-> "uint", at |-> pb.pos, n |-> v]]
    /\ UNCHANGED <<sz, sk, mk, mx>>

EbPutVoid ==
    /\ eb.ops < MaxOps
    /\ ~eb.voided
    /\ \E n \in 0 .. MaxVoid :
          /\ pb' = put_ebml_void(pb, n)
          /\ eb' = [eb EXCEPT !.ops = @ + 1,
                              !.voided = TRUE,
                              !.last = [op |-> "void", at |-> pb.pos, n |-> n]]
    /\ UNCHANGED <<sz, sk, mk, mx>>

NextEbml == EbStartMaster \/ EbEndMaster \/ EbPutUint \/ EbPutVoid

SpecEbml == InitEbml /\ [][NextEbml]_vars

\* the size field that starts at offset o: its bytes, or <<>>
SizeFieldAt(io, o) ==
    IF o \in DOMAIN io.file THEN BytesAt(io, o, EbmlWidth(io.file[o])) ELSE <<>>

\* an element with identifier id starts at offset o and, by its own size
\* field, is `total` bytes long (identifier, size field and payload)
ElementAt(io, o, id, total) ==
    LET n == ebml_id_size(id)
        f == SizeFieldAt(io, o + n)
    IN  /\ BytesAt(io, o, n) = [k \in 1 .. n |-> (id \div (256 ^ (n - k))) % 256]
        /\ EbmlSizeOk(f)
        /\ ~EbmlIsUnknown(f)
        /\ IsZero(Shr(EbmlDecode(f), 31))
        /\ n + Len(f) + Low31(EbmlDecode(f)) = total

\* C7: for every master closed by end_ebml_master(p), the 8 bytes at p-8
\* are one size field that decodes to end - p, where end is the cursor at
\* the time of the call, and the call returns with the cursor at end.
C7_MasterLength ==
    \A k \in 1 .. Len(eb.closed) :
        LET c == eb.closed[k]
            f == BytesAt(pb, c.start - 8, 8)
        IN  /\ Len(f) = 8
            /\ EbmlSizeOk(f)
            /\ EbmlDecode(f) = U64Of(c.end - c.start)
            /\ c.after = c.end

\* C7 witness: a master with a closed master nested in it was closed
C7_Witness ==
    \E i, j \in 1 .. Len(eb.closed) :
        /\ eb.closed[i].start < eb.closed[j].start
        /\ eb.closed[j].end <= eb.closed[i].end
        /\ eb.closed[j].end > eb.closed[j].start

\* C8: for every n >= 2, put_ebml_void(n) advances the cursor by n and the
\* n bytes are one Void element: identifier, size field and declared
\* payload length add up to n.
C8_VoidPad ==
    (eb.last.op = "void" /\ eb.last.n >= 2) =>
        /\ pb.pos = eb.last.at + eb.last.n
        /\ ElementAt(pb, eb.last.at, EBML_ID_VOID, eb.last.n)

\* C8 as the code has it: the cursor advances by n for every n >= 2, and
\* the element is well formed for n >= 10 only; for n in 2..9 it declares
\* one byte more than was reserved.
C8_VoidAsCoded ==
    (eb.last.op = "void" /\ eb.last.n >= 2) =>
        /\ pb.pos = eb.last.at + eb.last.n
        /\ ElementAt(pb, eb.last.at, EBML_ID_VOID,
                     IF eb.last.n < 10 THEN eb.last.n + 1 ELSE eb.last.n)

(***************************************************************************)
(* SpecSeek: one SeekHead, started with k entries reserved at the cursor   *)
(* (k = 0: nothing reserved), then filled and written.                     *)
(***************************************************************************)
MaxSeekEntries == 2
MaxAppends     == 1

SeekIds == {MATROSKA_ID_INFO, MATROSKA_ID_CLUSTER}

\* offsets in the segment: 1, 2 and 7 bytes long as a SeekPosition
SeekOffsets == {U64Of(0), U64Of(300), Shl1(55)}

InitSeek ==
    /\ \E p \in {0, 52} : pb = url_fseek(NewIO, p)
    /\ sz = IdleSz
    /\ eb = IdleEb
    /\ sk = [IdleSk EXCEPT !.stage = "new"]
    /\ mk = IdleMk
    /\ mx = IdleMx

SkStart ==
    /\ sk.stage = "new"
    /\ \E k \in 0 .. MaxSeekEntries :
          LET r == mkv_start_seekhead(pb, pb.pos, k)
          IN  /\ pb' = r.io
              /\ sk' = [sk EXCEPT !.stage = "open", !.sh = r.sh, !.k = k]
    /\ UNCHANGED <<sz, eb, mk, mx>>

\* other elements are written between the reservation and the write
SkAppend ==
    /\ sk.stage = "open"
    /\ sk.appends < MaxAppends
    /\ pb' = put_opaque(pb, 1000)
    /\ sk' = [sk EXCEPT !.appends = @ + 1]
    /\ UNCHANGED <<sz, eb, mk, mx>>

SkAdd ==
    /\ sk.stage = "open"
    /\ Len(sk.sh.entries) <= MaxSeekEntries
    /\ \E id \in SeekIds, off \in SeekOffsets :
          LET r == mkv_add_seekhead_entry(
                       sk.sh, id, Add64(U64Of(sk.sh.segment_offset), off))
          IN  sk' = [sk EXCEPT !.sh = r.sh, !.ret = r.ret,
                               !.arg = [id |-> id,
                                        filepos |-> Add64(U64Of(sk.sh.segment_offset), off)]]
    /\ UNCHANGED <<pb, sz, eb, mk, mx>>

SkWrite ==
    /\ sk.stage = "open"
    /\ LET r == mkv_write_seekhead(pb, sk.sh)
       IN  /\ pb' = r.io
           /\ sk' = [sk EXCEPT !.stage = "written", !.ret = r.ret, !.cur = pb.pos]
    /\ UNCHANGED <<sz, eb, mk, mx>>

NextSeek == SkStart \/ SkAppend \/ SkAdd \/ SkWrite

SpecSeek == InitSeek /\ [][NextSeek]_vars

\* the length the element at offset o declares for itself, identifier and
\* size field included, or -1 when no element with identifier id is there
TotalAt(io, o, id) ==
    LET n == ebml_id_size(id)
        f == SizeFieldAt(io, o + n)
    IN  IF /\ BytesAt(io, o, n) = [k \in 1 .. n |-> (id \div (256 ^ (n - k))) % 256]
           /\ EbmlSizeOk(f)
           /\ ~EbmlIsUnknown(f)
           /\ IsZero(Shr(EbmlDecode(f), 31))
        THEN n + Len(f) + Low31(EbmlDecode(f))
        ELSE -1

\* C9: for a SeekHead started with k > 0 at file_pos, after j <= k adds,
\* mkv_write_seekhead writes the SeekHead at file_pos followed by a Void,
\* and the two elements together occupy exactly reserved_size = 28k + 13.
C9_SeekHeadReservation ==
    (sk.stage = "written" /\ sk.k > 0) =>
        LET fp == sk.sh.filepos
            a  == TotalAt(pb, fp, MATROSKA_ID_SEEKHEAD)
        IN  /\ sk.sh.reserved_size = 28 * sk.k + 13
            /\ a > 0
            /\ TotalAt(pb, fp + a, EBML_ID_VOID) > 0
            /\ a + TotalAt(pb, fp + a, EBML_ID_VOID) = sk.sh.reserved_size


(***************************************************************************)
(* The MXF demuxer (src/mxf.c).                                            *)
(*                                                                         *)
(* Keys and universal labels are kept byte for byte.  Instance UIDs and    *)
(* package UIDs, which the code only copies and compares with memcmp, are  *)
(* numbers; 0 is the all-zero UID that av_mallocz leaves.  A pointer is    *)
(* the object it points to, or NULL: every object is attached to at most   *)
(* one slot, so the object graph under MXFContext is a tree.               *)
(***************************************************************************)
MetadataKey(b) ==
    <<\h06, \h0e, \h2b, \h34, \h02, \h53, \h01, \h01,
      \h0d, \h01, \h01, \h01, \h01, \h01, b, \h00>>

mxf_metadata_preface_key                  == MetadataKey(\h2F)
mxf_metadata_content_storage_key          == MetadataKey(\h18)
mxf_metadata_source_package_key           == MetadataKey(\h37)
mxf_metadata_material_package_key         == MetadataKey(\h36)
mxf_metadata_sequence_key                 == MetadataKey(\h0F)
mxf_metadata_source_clip_key              == MetadataKey(\h11)
mxf_metadata_multiple_descriptor_key      == MetadataKey(\h44)
mxf_metadata_generic_sound_descriptor_key == MetadataKey(\h42)
mxf_metadata_cdci_descriptor_key          == MetadataKey(\h28)
mxf_metadata_mpegvideo_descriptor_key     == MetadataKey(\h51)
mxf_metadata_wave_descriptor_key          == MetadataKey(\h48)
mxf_metadata_static_track_key             == MetadataKey(\h3A)
mxf_metadata_track_key                    == MetadataKey(\h3b)

\* partial keys to match
mxf_header_partition_pack_key ==
    <<\h06, \h0e, \h2b, \h34, \h02, \h05, \h01, \h01, \h0d, \h01, \h02, \h01, \h01, \h02>>
mxf_essence_element_key ==
    <<\h06, \h0e, \h2b, \h34, \h01, \h02, \h01, \h01, \h0d, \h01, \h03, \h01>>

IS_KLV_KEY(x, y) == Len(x) >= Len(y) /\ SubSeq(x, 1, Len(y)) = y

picture_essence_track_ul ==
    <<\h06, \h0E, \h2B, \h34, \h04, \h01, \h01, \h01,
      \h01, \h03, \h02, \h02, \h01, \h00, \h00, \h00>>
sound_essence_track_ul ==
    <<\h06, \h0E, \h2B, \h34, \h04, \h01, \h01, \h01,
      \h01, \h03, \h02, \h02, \h02, \h00, \h00, \h00>>

CodecUL(v, t) ==
    <<\h06, \h0E, \h2B, \h34, \h04, \h01, \h01, v, \h04>> \o t

mxf_codec_uls ==
    << [uid |-> CodecUL(\h03, <<\h01, \h02, \h02, \h01, \h02, \h02, \h00>>), id |-> "CODEC_ID_MPEG2VIDEO"],
       [uid |-> CodecUL(\h03, <<\h01, \h02, \h02, \h01, \h04, \h03, \h00>>), id |-> "CODEC_ID_MPEG2VIDEO"],
       [uid |-> CodecUL(\h03, <<\h01, \h02, \h02, \h01, \h02, \h03, \h00>>), id |-> "CODEC_ID_MPEG2VIDEO"],
       [uid |-> CodecUL(\h01, <<\h01, \h02, \h02, \h01, \h02, \h01, \h05>>), id |-> "CODEC_ID_MPEG2VIDEO"],
       [uid |-> CodecUL(\h01, <<\h01, \h02, \h02, \h01, \h02, \h01, \h01>>), id |-> "CODEC_ID_MPEG2VIDEO"],
       [uid |-> CodecUL(\h01, <<\h01, \h02, \h02, \h02, \h02, \h04, \h00>>), id |-> "CODEC_ID_DVVIDEO"],
       [uid |-> CodecUL(\h01, <<\h01, \h02, \h02, \h02, \h02, \h02, \h00>>), id |-> "CODEC_ID_DVVIDEO"],
       [uid |-> CodecUL(\h01, <<\h01, \h02, \h02, \h02, \h01, \h02, \h00>>), id |-> "CODEC_ID_DVVIDEO"],
       [uid |-> CodecUL(\h01, <<\h02, \h02, \h01, \h7F, \h00, \h00, \h00>>), id |-> "CODEC_ID_PCM_S16LE"],
       [uid |-> CodecUL(\h07, <<\h02, \h02, \h01, \h7E, \h00, \h00, \h00>>), id |-> "CODEC_ID_PCM_S16BE"] >>

\* the first entry of the table whose label equals uid, CODEC_ID_NONE if none
mxf_get_codec_id(uls, uid) ==
    LET hits == {n \in 1 .. Len(uls) : uls[n].uid = uid}
    IN  IF hits = {} THEN "CODEC_ID_NONE"
        ELSE uls[CHOOSE n \in hits : \A m \in hits : n <= m].id

NULL == [kind |-> "null"]
IsNull(p) == p.kind = "null"
ZeroUL == [n \in 1 .. 16 |-> 0]

\* MXFContext after av_mallocz
NewMXFContext ==
    [packages |-> <<>>, packages_refs |-> <<>>,
     essence_container_data_sets |-> <<>>,
     essence_container_data_sets_refs |-> <<>>,
     essence_containers_uls |-> <<>>,
     operational_pattern_ul |-> ZeroUL,
     content_storage_uid |-> 0]

Idx(s) == 1 .. Len(s)
Nulls(n) == [k \in 1 .. n |-> NULL]

\* the order in which the nested for loops of a handler visit the slots
PathLeq(a, b) ==
    \/ a = b
    \/ \E n \in 1 .. Len(a) : a[n] < b[n] /\ \A m \in 1 .. (n - 1) : a[m] = b[m]
FirstPath(S) == CHOOSE a \in S : \A b \in S : PathLeq(a, b)

\* klv.set holds the values of the local tags of the KLV's value
mxf_read_metadata_preface(mxf, klv) ==
    [ret |-> 0,
     mxf |-> [mxf EXCEPT !.content_storage_uid = klv.set.content_storage_uid,
                         !.operational_pattern_ul = klv.set.operational_pattern_ul,
                         !.essence_containers_uls = klv.set.essence_containers_uls]]

mxf_read_metadata_content_storage(mxf, klv) ==
    [ret |-> 0,
     mxf |-> [mxf EXCEPT
                !.packages_refs = klv.set.packages_refs,
                !.packages = Nulls(Len(klv.set.packages_refs)),
                !.essence_container_data_sets_refs = klv.set.essence_container_data_sets_refs,
                !.essence_container_data_sets =
                    Nulls(Len(klv.set.essence_container_data_sets_refs))]]

\* mxf_read_metadata_source_clip with `return 0` after the loop
mxf_read_metadata_source_clip_returns_0(mxf, klv) ==
    LET source_clip ==
            [kind |-> "component", type |-> "SourceClip",
             uid |-> klv.set.uid,
             duration |-> klv.set.duration,
             start_position |-> klv.set.start_position,
             source_package_uid |-> klv.set.source_package_uid,
             source_track_id |-> klv.set.source_track_id]
        hits == {p \in UNION {UNION {{<<i, j, k>> :
                        k \in IF IsNull(mxf.packages[i].tracks[j])
                                 \/ IsNull(mxf.packages[i].tracks[j].sequence)
                              THEN {}
                              ELSE Idx(mxf.packages[i].tracks[j].sequence.structural_components_refs)} :
                    j \in IF IsNull(mxf.packages[i]) THEN {}
                          ELSE Idx(mxf.packages[i].tracks)} :
                 i \in Idx(mxf.packages)} :
                 mxf.packages[p[1]].tracks[p[2]].sequence.structural_components_refs[p[3]]
                     = source_clip.uid}
    IN  IF hits = {} THEN [ret |-> 0, mxf |-> mxf]
        ELSE LET p == FirstPath(hits)
             IN  [ret |-> 0,
                  mxf |-> [mxf EXCEPT !.packages[p[1]].tracks[p[2]].sequence
                                         .structural_components[p[3]] = source_clip]]

mxf_read_metadata_source_clip(mxf, klv) ==
    LET source_clip ==
            [kind |-> "component", type |-> "SourceClip",
             uid |-> klv.set.uid,
             duration |-> klv.set.duration,
             start_position |-> klv.set.start_position,
             source_package_uid |-> klv.set.source_package_uid,
             source_track_id |-> klv.set.source_track_id]
        hits == {p \in UNION {UNION {{<<i, j, k>> :
                        k \in IF IsNull(mxf.packages[i].tracks[j])
                                 \/ IsNull(mxf.packages[i].tracks[j].sequence)
                              THEN {}
                              ELSE Idx(mxf.packages[i].tracks[j].sequence.structural_components_refs)} :
                    j \in IF IsNull(mxf.packages[i]) THEN {}
                          ELSE Idx(mxf.packages[i].tracks)} :
                 i \in Idx(mxf.packages)} :
                 mxf.packages[p[1]].tracks[p[2]].sequence.structural_components_refs[p[3]]
                     = source_clip.uid}
    IN  IF hits = {} THEN [ret |-> -1, mxf |-> mxf]
        ELSE LET p == FirstPath(hits)
             IN  [ret |-> 0,
                  mxf |-> [mxf EXCEPT !.packages[p[1]].tracks[p[2]].sequence
                                         .structural_components[p[3]] = source_clip]]

\* mutant: the package goes to the last slot that is free
attach_package_free_slot(mxf, package) ==
    LET hits == {i \in Idx(mxf.packages) : mxf.packages_refs[i] = package.uid}
        free == {i \in Idx(mxf.packages) : IsNull(mxf.packages[i])}
    IN  IF hits = {} \/ free = {} THEN [ret |-> -1, mxf |-> mxf]
        ELSE LET i == CHOOSE i \in free : \A m \in free : i >= m
             IN  [ret |-> 0, mxf |-> [mxf EXCEPT !.packages[i] = package]]

\* the closing loop of the two package handlers
attach_package(mxf, package) ==
    LET hits == {i \in Idx(mxf.packages) : mxf.packages_refs[i] = package.uid}
    IN  IF hits = {} THEN [ret |-> -1, mxf |-> mxf]
        ELSE LET i == CHOOSE i \in hits : \A m \in hits : i <= m
             IN  [ret |-> 0, mxf |-> [mxf EXCEPT !.packages[i] = package]]

mxf_read_metadata_material_package(mxf, klv) ==
    attach_package(mxf,
        [kind |-> "package", type |-> "MaterialPackage",
         uid |-> klv.set.uid, package_uid |-> 0,
         tracks_refs |-> klv.set.tracks_refs,
         tracks |-> Nulls(Len(klv.set.tracks_refs)),
         descriptor |-> NULL, descriptor_ref |-> 0])

mxf_read_metadata_source_package(mxf, klv) ==
    attach_package(mxf,
        [kind |-> "package", type |-> "SourcePackage",
         uid |-> klv.set.uid, package_uid |-> klv.set.package_uid,
         tracks_refs |-> klv.set.tracks_refs,
         tracks |-> Nulls(Len(klv.set.tracks_refs)),
         descriptor |-> NULL, descriptor_ref |-> klv.set.descriptor_ref])

\* mxf_read_metadata_track with `return 0` after the loop
mxf_read_metadata_track_returns_0(mxf, klv) ==
    LET track ==
            [kind |-> "track", uid |-> klv.set.uid,
             sequence |-> NULL, sequence_ref |-> klv.set.sequence_ref,
             track_id |-> klv.set.track_id,
             track_number |-> klv.set.track_number,
             edit_rate |-> [den |-> klv.set.edit_rate[1],
                            num |-> klv.set.edit_rate[2]]]
        hits == {p \in UNION {{<<i, j>> :
                        j \in IF IsNull(mxf.packages[i]) THEN {}
                              ELSE Idx(mxf.packages[i].tracks_refs)} :
                    i \in Idx(mxf.packages)} :
                 mxf.packages[p[1]].tracks_refs[p[2]] = track.uid}
    IN  IF hits = {} THEN [ret |-> 0, mxf |-> mxf]
        ELSE LET p == FirstPath(hits)
             IN  [ret |-> 0,
                  mxf |-> [mxf EXCEPT !.packages[p[1]].tracks[p[2]] = track]]

mxf_read_metadata_track(mxf, klv) ==
    LET track ==
            [kind |-> "track", uid |-> klv.set.uid,
             sequence |-> NULL, sequence_ref |-> klv.set.sequence_ref,
             track_id |-> klv.set.track_id,
             track_number |-> klv.set.track_number,
             edit_rate |-> [den |-> klv.set.edit_rate[1],
                            num |-> klv.set.edit_rate[2]]]
        hits == {p \in UNION {{<<i, j>> :
                        j \in IF IsNull(mxf.packages[i]) THEN {}
                              ELSE Idx(mxf.packages[i].tracks_refs)} :
                    i \in Idx(mxf.packages)} :
                 mxf.packages[p[1]].tracks_refs[p[2]] = track.uid}
    IN  IF hits = {} THEN [ret |-> -1, mxf |-> mxf]
        ELSE LET p == FirstPath(hits)
             IN  [ret |-> 0,
                  mxf |-> [mxf EXCEPT !.packages[p[1]].tracks[p[2]] = track]]

\* mutant: the loops go on after a match: every track that records the
\* uid of the sequence gets it
mxf_read_metadata_sequence_every_track(mxf, klv) ==
    LET sequence ==
            [kind |-> "sequence", uid |-> klv.set.uid,
             duration |-> klv.set.duration,
             data_definition_ul |-> klv.set.data_definition_ul,
             structural_components_refs |-> klv.set.structural_components_refs,
             structural_components |->
                 Nulls(Len(klv.set.structural_components_refs))]
        Hit(i, j) == /\ ~IsNull(mxf.packages[i])
                     /\ ~IsNull(mxf.packages[i].tracks[j])
                     /\ mxf.packages[i].tracks[j].sequence_ref = sequence.uid
        WithSequence(i) ==
            [mxf.packages[i] EXCEPT !.tracks =
                [j \in DOMAIN mxf.packages[i].tracks |->
                    IF Hit(i, j)
                    THEN [mxf.packages[i].tracks[j] EXCEPT !.sequence = sequence]
                    ELSE mxf.packages[i].tracks[j]]]
    IN  IF \A i \in Idx(mxf.packages) :
               IsNull(mxf.packages[i])
               \/ \A j \in Idx(mxf.packages[i].tracks) : ~Hit(i, j)
        THEN [ret |-> -1, mxf |-> mxf]
        ELSE [ret |-> 0,
              mxf |-> [mxf EXCEPT !.packages =
                          [i \in DOMAIN mxf.packages |->
                              IF IsNull(mxf.packages[i]) THEN mxf.packages[i]
                              ELSE WithSequence(i)]]]

mxf_read_metadata_sequence(mxf, klv) ==
    LET sequence ==
            [kind |-> "sequence", uid |-> klv.set.uid,
             duration |-> klv.set.duration,
             data_definition_ul |-> klv.set.data_definition_ul,
             structural_components_refs |-> klv.set.structural_components_refs,
             structural_components |->
                 Nulls(Len(klv.set.structural_components_refs))]
        hits == {p \in UNION {{<<i, j>> :
                        j \in IF IsNull(mxf.packages[i]) THEN {}
                              ELSE {j \in Idx(mxf.packages[i].tracks) :
                                        ~IsNull(mxf.packages[i].tracks[j])}} :
                    i \in Idx(mxf.packages)} :
                 mxf.packages[p[1]].tracks[p[2]].sequence_ref = sequence.uid}
    IN  IF hits = {} THEN [ret |-> -1, mxf |-> mxf]
        ELSE LET p == FirstPath(hits)
             IN  [ret |-> 0,
                  mxf |-> [mxf EXCEPT !.packages[p[1]].tracks[p[2]].sequence = sequence]]

NewDescriptor ==
    [kind |-> "descriptor", uid |-> 0,
     essence_container_ul |-> ZeroUL, essence_codec_ul |-> ZeroUL,
     sample_rate |-> [num |-> 0, den |-> 0],
     aspect_ratio |-> [num |-> 0, den |-> 0],
     width |-> 0, height |-> 0, channels |-> 0, bits_per_sample |-> 0,
     sub_descriptors |-> <<>>, sub_descriptors_refs |-> <<>>,
     linked_track_id |-> 0]

mxf_read_metadata_multiple_descriptor(mxf, klv) ==
    LET descriptor ==
            [NewDescriptor EXCEPT
                !.uid = klv.set.uid,
                !.sub_descriptors_refs = klv.set.sub_descriptors_refs,
                !.sub_descriptors = Nulls(Len(klv.set.sub_descriptors_refs))]
        hits == {i \in Idx(mxf.packages) :
                    /\ ~IsNull(mxf.packages[i])
                    /\ mxf.packages[i].descriptor_ref = descriptor.uid}
    IN  IF hits = {} THEN [ret |-> -1, mxf |-> mxf]
        ELSE LET i == CHOOSE i \in hits : \A m \in hits : i <= m
             IN  [ret |-> 0,
                  mxf |-> [mxf EXCEPT !.packages[i].descriptor = descriptor]]

\* a hit <<i, 0>> is the descriptor slot of package i, a hit <<i, j>> the
\* j-th sub-descriptor slot of the descriptor of package i
mxf_read_metadata_generic_descriptor(mxf, klv) ==
    LET descriptor ==
            [NewDescriptor EXCEPT
                !.uid = klv.set.uid,
                !.essence_container_ul = klv.set.essence_container_ul,
                !.linked_track_id = klv.set.linked_track_id,
                !.essence_codec_ul = klv.set.essence_codec_ul,
                !.width = klv.set.width,
                !.height = klv.set.height,
                !.aspect_ratio = klv.set.aspect_ratio,
                !.sample_rate = klv.set.sample_rate,
                !.channels = klv.set.channels,
                !.bits_per_sample = klv.set.bits_per_sample]
        present == {i \in Idx(mxf.packages) : ~IsNull(mxf.packages[i])}
        hits == {<<i, 0>> : i \in {i \in present :
                        mxf.packages[i].descriptor_ref = descriptor.uid}}
                \cup
                UNION {{<<i, j>> :
                        j \in {j \in Idx(mxf.packages[i].descriptor.sub_descriptors_refs) :
                                 mxf.packages[i].descriptor.sub_descriptors_refs[j]
                                     = descriptor.uid}} :
                    i \in {i \in present :
                            /\ mxf.packages[i].descriptor_ref # descriptor.uid
                            /\ ~IsNull(mxf.packages[i].descriptor)}}
    IN  IF hits = {} THEN [ret |-> -1, mxf |-> mxf]
        ELSE LET p == FirstPath(hits)
             IN  [ret |-> 0,
                  mxf |-> IF p[2] = 0
                          THEN [mxf EXCEPT !.packages[p[1]].descriptor = descriptor]
                          ELSE [mxf EXCEPT !.packages[p[1]].descriptor
                                              .sub_descriptors[p[2]] = descriptor]]


MinOf(S) == CHOOSE n \in S : \A m \in S : n <= m

\* `for (k ...) if (p[k]->field == value) break;` over an array of pointers:
\* the index found (0 if none) and whether a NULL element was dereferenced
\* on the way
ScanFor(p, Match(_)) ==
    LET hit  == {k \in Idx(p) : ~IsNull(p[k]) /\ Match(p[k])}
        null == {k \in Idx(p) : IsNull(p[k])}
    IN  [k  |-> IF hit = {} THEN 0 ELSE MinOf(hit),
         ub |-> \E n \in null : hit = {} \/ n < MinOf(hit)]

\* The loop over the structural components j, j+1, .. of the sequence of one
\* material track.  v holds the variables source_package, source_track and
\* component, and ub: a NULL pointer was dereferenced.
RECURSIVE component_loop(_, _, _, _)

\* the source track is looked up in the tracks of the source package; ts is
\* the result of the scan
find_source_track(mxf, sequence, j, v, ts) ==
    IF ts.ub THEN [v EXCEPT !.ub = TRUE]
    ELSE IF ts.k = 0 /\ IsNull(v.source_track) THEN v
    ELSE component_loop(mxf, sequence, j + 1,
             [v EXCEPT !.source_track =
                           IF ts.k = 0 THEN @ ELSE v.source_package.tracks[ts.k]])

\* the source package is looked up in the packages; ps is the result of the
\* scan
find_source_package(mxf, sequence, j, v, ps) ==
    IF ps.ub THEN [v EXCEPT !.ub = TRUE]
    ELSE IF ps.k = 0 /\ IsNull(v.source_package) THEN v
    ELSE LET source_package == IF ps.k = 0 THEN v.source_package
                               ELSE mxf.packages[ps.k]
             IsSourceTrack(t) == t.track_id = v.component.source_track_id
         IN  find_source_track(mxf, sequence, j,
                 [v EXCEPT !.source_package = source_package],
                 ScanFor(source_package.tracks, IsSourceTrack))

component_loop(mxf, sequence, j, v) ==
    IF j > Len(sequence.structural_components) THEN v
    ELSE LET component == sequence.structural_components[j]
             IsSourcePackage(p) == p.package_uid = component.source_package_uid
         IN  IF IsNull(component) \/ component.type # "SourceClip"
             THEN component_loop(mxf, sequence, j + 1,
                                 [v EXCEPT !.component = component])
             ELSE find_source_package(mxf, sequence, j,
                                      [v EXCEPT !.component = component],
                                      ScanFor(mxf.packages, IsSourcePackage))

\* INT64_MIN, as the least integer of the model
AV_NOPTS_VALUE == -2147483647

\* AVStream as av_new_stream returns it
av_new_stream(nb_streams, id) ==
    [index |-> nb_streams, id |-> id, priv_data |-> NULL,
     duration |-> AV_NOPTS_VALUE, start_time |-> AV_NOPTS_VALUE,
     time_base |-> [num |-> 1, den |-> 90000],
     codec |-> [codec_type |-> "CODEC_TYPE_UNKNOWN", codec_id |-> "CODEC_ID_NONE",
                width |-> 0, height |-> 0, channels |-> 0,
                bits_per_sample |-> 0, sample_rate |-> 0]]

\* find_descriptor without the comparison of linked_track_id
find_descriptor_unlinked(source_package, source_track) ==
    IF IsNull(source_package.descriptor) THEN NULL
    ELSE IF Len(source_package.descriptor.sub_descriptors) > 0
    THEN LET hit == {j \in Idx(source_package.descriptor.sub_descriptors) :
                        /\ ~IsNull(source_package.descriptor.sub_descriptors[j])
                        /\ source_track.track_id = source_track.track_id}
         IN  IF hit = {} THEN NULL
             ELSE source_package.descriptor.sub_descriptors[MinOf(hit)]
    ELSE source_package.descriptor

\* the descriptor of the source track: NULL if none is found
find_descriptor(source_package, source_track) ==
    IF IsNull(source_package.descriptor) THEN NULL
    ELSE IF Len(source_package.descriptor.sub_descriptors) > 0
    THEN LET hit == {j \in Idx(source_package.descriptor.sub_descriptors) :
                        /\ ~IsNull(source_package.descriptor.sub_descriptors[j])
                        /\ source_package.descriptor.sub_descriptors[j].linked_track_id
                               = source_track.track_id}
         IN  IF hit = {} THEN NULL
             ELSE source_package.descriptor.sub_descriptors[MinOf(hit)]
    ELSE source_package.descriptor

pcm_codec_id(codec_id, bits_per_sample) ==
    IF codec_id = "CODEC_ID_PCM_S16LE"
    THEN (IF bits_per_sample = 24 THEN "CODEC_ID_PCM_S24LE"
          ELSE IF bits_per_sample = 32 THEN "CODEC_ID_PCM_S32LE"
          ELSE codec_id)
    ELSE IF codec_id = "CODEC_ID_PCM_S16BE"
    THEN (IF bits_per_sample = 24 THEN "CODEC_ID_PCM_S24BE"
          ELSE IF bits_per_sample = 32 THEN "CODEC_ID_PCM_S32BE"
          ELSE codec_id)
    ELSE codec_id

\* the codec parameters of a stream of the given type with the descriptor
\* and the codec id of its essence coding label
set_codec(codec, descriptor, id) ==
    IF codec.codec_type = "CODEC_TYPE_VIDEO"
    THEN [codec EXCEPT !.codec_id = id,
                       !.width = descriptor.width,
                       !.height = descriptor.height]
    ELSE IF codec.codec_type = "CODEC_TYPE_AUDIO"
    THEN [codec EXCEPT !.codec_id = pcm_codec_id(id, descriptor.bits_per_sample),
                       !.channels = descriptor.channels,
                       !.bits_per_sample = descriptor.bits_per_sample,
                       !.sample_rate = descriptor.sample_rate.num
                                          \div descriptor.sample_rate.den]
    ELSE [codec EXCEPT !.codec_id = id]

codec_type_of(data_definition_ul) ==
    IF data_definition_ul = picture_essence_track_ul THEN "CODEC_TYPE_VIDEO"
    ELSE IF data_definition_ul = sound_essence_track_ul THEN "CODEC_TYPE_AUDIO"
    ELSE "CODEC_TYPE_DATA"

\* the stream st gets its codec parameters from the descriptor, if there is
\* one; a sound descriptor without sample rate divides by zero
describe_stream(streams, st, descriptor) ==
    IF IsNull(descriptor)
    THEN [streams |-> Append(streams, st), ub |-> FALSE]
    ELSE IF st.codec.codec_type = "CODEC_TYPE_AUDIO" /\ descriptor.sample_rate.den = 0
    THEN [streams |-> Append(streams, st), ub |-> TRUE]
    ELSE [streams |-> Append(streams,
                         [st EXCEPT !.codec =
                             set_codec(@, descriptor,
                                 mxf_get_codec_id(mxf_codec_uls,
                                                  descriptor.essence_codec_ul))]),
          ub |-> FALSE]

\* the stream st of the source track v.source_track is filled in
fill_stream(streams, material_track, v, st) ==
    IF IsNull(v.component) \/ IsNull(v.source_track.sequence)
    THEN [streams |-> Append(streams, st), ub |-> TRUE]
    ELSE describe_stream(streams,
             [st EXCEPT
                 !.priv_data = v.source_track,
                 !.duration = IF v.component.duration = -1 THEN AV_NOPTS_VALUE
                              ELSE v.component.duration,
                 !.start_time = v.component.start_position,
                 !.time_base = [num |-> material_track.edit_rate.num,
                                den |-> material_track.edit_rate.den],
                 !.codec.codec_type =
                     codec_type_of(v.source_track.sequence.data_definition_ul)],
             find_descriptor(v.source_package, v.source_track))

\* the rest of one iteration of the loop over the tracks of the material
\* package, once the loop over the structural components has ended with v
emit_stream(material_track, acc, v) ==
    IF v.ub THEN [acc EXCEPT !.source_package = v.source_package, !.ub = TRUE]
    ELSE IF IsNull(v.source_track)
    THEN [acc EXCEPT !.source_package = v.source_package]
    ELSE [source_package |-> v.source_package] @@
         fill_stream(acc.streams, material_track, v,
                     av_new_stream(Len(acc.streams), v.source_track.track_id))

\* one iteration of the loop over the tracks of the material package; acc
\* holds source_package (it outlives the iteration), the streams created so
\* far and ub
emit_track(mxf, material_track, acc) ==
    IF IsNull(material_track) \/ IsNull(material_track.sequence)
    THEN [acc EXCEPT !.ub = TRUE]
    ELSE emit_stream(material_track, acc,
             component_loop(mxf, material_track.sequence, 1,
                 [source_package |-> acc.source_package,
                  source_track |-> NULL, component |-> NULL, ub |-> FALSE]))

RECURSIVE track_loop(_, _, _, _)
track_loop(mxf, material_package, i, acc) ==
    IF acc.ub \/ i > Len(material_package.tracks) THEN acc
    ELSE track_loop(mxf, material_package, i + 1,
                    emit_track(mxf, material_package.tracks[i], acc))

\* the streams of the tracks of the material package found by the scan ms
parse_tracks(mxf, ms) ==
    IF ms.ub THEN [ret |-> 0, streams |-> <<>>, ub |-> TRUE]
    ELSE IF ms.k = 0 THEN [ret |-> -1, streams |-> <<>>, ub |-> FALSE]
    ELSE [ret |-> 0] @@
         track_loop(mxf, mxf.packages[ms.k], 1,
                    [source_package |-> NULL, streams |-> <<>>, ub |-> FALSE])

\* [ret, streams, ub, ..]: the result, the streams added to the format
\* context, and whether the call dereferenced a NULL pointer (or divided by
\* zero)
mxf_parse_structural_metadata(mxf) ==
    LET IsMaterial(p) == p.type = "MaterialPackage"
    IN  parse_tracks(mxf, ScanFor(mxf.packages, IsMaterial))

(***************************************************************************)
(* The input file is a sequence of KLVs.  A KLV of the file is the record  *)
(* [name, key, ber, len, set]: its 16 key bytes, the bytes of its BER      *)
(* length field, the number of value bytes that follow and, for a          *)
(* metadata set, the values of its local tags.                             *)
(***************************************************************************)
\* the bytes of the length field that klv_decode_ber_length consumes
BerBytesRead(ber) ==
    IF ber[1] >= 128 /\ ber[1] - 128 <= 8 THEN 1 + (ber[1] - 128) ELSE 1

\* size << 8 | get_byte(pb) on the int64_t size, the bits shifted out lost
ShiftInByte(size, b) ==
    Bits([i \in Bit |-> IF i < 8 THEN (b \div (2 ^ i)) % 2 ELSE size[i - 8]])

\* while (bytes_num--) size = size << 8 | get_byte(pb), from the n-th byte
RECURSIVE BerFold(_, _, _)
BerFold(ber, n, size) ==
    IF n > Len(ber) THEN size ELSE BerFold(ber, n + 1, ShiftInByte(size, ber[n]))

\* (int64_t)-1 and 0
MinusOne == U64Of(-1)
Zero == U64Of(0)

\* the int64_t returned, as its 64 bits (two's complement)
klv_decode_ber_length(ber) ==
    LET length == ber[1]
        type == length \div 128
        bytes_num == length % 128
    IN  IF type # 0
        THEN (IF bytes_num > 8 THEN MinusOne
              ELSE BerFold(SubSeq(ber, 1, 1 + bytes_num), 2, Zero))
        ELSE U64Of(length % 128)

\* the value of an int64_t of magnitude below 2^31 as a number
Int64Of(v) == IF v[63] = 1 THEN 0 - Low31(Sub64(Zero, v)) ELSE Low31(v)

\* klv_read_packet on the KLV k of the file that starts at offset: the
\* result, the KLVPacket (with the value the handler will read) and the
\* cursor after the length field.  klv.length is the int64_t length as a
\* number (the lengths of the files read are of magnitude below 2^31) and
\* klv.bits its 64 bits.
klv_read_packet(k, offset) ==
    LET length == klv_decode_ber_length(k.ber)
    IN  [ret |-> IF length = MinusOne THEN -1 ELSE 0,
         klv |-> [key |-> k.key, offset |-> offset,
                  length |-> IF length = MinusOne THEN -1 ELSE Int64Of(length),
                  bits |-> length, set |-> k.set],
         pos |-> offset + 16 + BerBytesRead(k.ber)]

KlvSize(k) == 16 + Len(k.ber) + k.len

BerOf(n) == IF n < 128 THEN <<n>> ELSE <<\h82, n \div 256, n % 256>>

AVERROR_IO == -2

\* mxf_get_stream_index counting the streams from 1
mxf_get_stream_index_from_1(streams, klv) ==
    LET hit == {i \in Idx(streams) :
                   SubSeq(klv.key, Len(mxf_essence_element_key) + 1,
                          Len(mxf_essence_element_key) + 4)
                       = streams[i].priv_data.track_number}
    IN  IF hit = {} THEN -1 ELSE MinOf(hit)

\* the first stream whose track number equals the last 4 bytes of the key
mxf_get_stream_index(streams, klv) ==
    LET hit == {i \in Idx(streams) :
                   SubSeq(klv.key, Len(mxf_essence_element_key) + 1,
                          Len(mxf_essence_element_key) + 4)
                       = streams[i].priv_data.track_number}
    IN  IF hit = {} THEN -1 ELSE MinOf(hit) - 1

(***************************************************************************)
(* The header metadata of the file read by SpecMxf: a Preface, a Content   *)
(* Storage with a Material Package of two tracks and a Source Package of   *)
(* two tracks described by a Multiple Descriptor.                          *)
(***************************************************************************)
NoSet == [none |-> TRUE]
Klv(name, key, len, set) ==
    [name |-> name, key |-> key, ber |-> BerOf(len), len |-> len, set |-> set]

PictureNumber == <<\h15, \h01, \h05, \h00>>
SoundNumber   == <<\h16, \h01, \h01, \h00>>
NoNumber      == <<\h00, \h00, \h00, \h00>>

TrackKlv(name, uid, id, number, seq) ==
    Klv(name, mxf_metadata_track_key, 68,
        [uid |-> uid, track_id |-> id, track_number |-> number,
         edit_rate |-> <<25, 1>>, sequence_ref |-> seq])
SequenceKlv(name, uid, ul, refs) ==
    Klv(name, mxf_metadata_sequence_key, 64 + 16 * Len(refs),
        [uid |-> uid, duration |-> 250, data_definition_ul |-> ul,
         structural_components_refs |-> refs])
SourceClipKlv(name, uid, duration, package, track) ==
    Klv(name, mxf_metadata_source_clip_key, 88,
        [uid |-> uid, duration |-> duration, start_position |-> 0,
         source_package_uid |-> package, source_track_id |-> track])
DescriptorKlv(name, key, uid, track, ul, w, h, rate, ch, bits) ==
    Klv(name, key, 124,
        [uid |-> uid, essence_container_ul |-> ZeroUL, linked_track_id |-> track,
         essence_codec_ul |-> ul, width |-> w, height |-> h,
         aspect_ratio |-> [num |-> 4, den |-> 3],
         sample_rate |-> rate, channels |-> ch, bits_per_sample |-> bits])

Pool ==
    { Klv("Preface", mxf_metadata_preface_key, 52,
          [content_storage_uid |-> 2, operational_pattern_ul |-> ZeroUL,
           essence_containers_uls |-> <<>>]),
      Klv("ContentStorage", mxf_metadata_content_storage_key, 56,
          [packages_refs |-> <<10, 20>>,
           essence_container_data_sets_refs |-> <<>>]),
      Klv("MP", mxf_metadata_material_package_key, 64,
          [uid |-> 10, tracks_refs |-> <<11, 12>>]),
      TrackKlv("MT1", 11, 1, NoNumber, 13),
      TrackKlv("MT2", 12, 2, NoNumber, 14),
      SequenceKlv("MS1", 13, picture_essence_track_ul, <<15>>),
      SequenceKlv("MS2", 14, sound_essence_track_ul, <<16>>),
      SourceClipKlv("MC1", 15, 250, 200, 1),
      SourceClipKlv("MC2", 16, -1, 200, 2),
      Klv("SP", mxf_metadata_source_package_key, 120,
          [uid |-> 20, tracks_refs |-> <<21, 22>>, package_uid |-> 200,
           descriptor_ref |-> 30]),
      TrackKlv("ST1", 21, 1, PictureNumber, 23),
      TrackKlv("ST2", 22, 2, SoundNumber, 24),
      SequenceKlv("SS1", 23, picture_essence_track_ul, <<>>),
      SequenceKlv("SS2", 24, sound_essence_track_ul, <<>>),
      Klv("MD", mxf_metadata_multiple_descriptor_key, 64,
          [uid |-> 30, sub_descriptors_refs |-> <<31, 32>>]),
      DescriptorKlv("D1", mxf_metadata_mpegvideo_descriptor_key, 31, 1,
          mxf_codec_uls[1].uid, 720, 576, [num |-> 25, den |-> 1], 0, 0),
      DescriptorKlv("D2", mxf_metadata_wave_descriptor_key, 32, 2,
          mxf_codec_uls[9].uid, 0, 0, [num |-> 48000, den |-> 1], 2, 24) }

\* a KLV the header loop has no handler for, an essence element of a track
\* number, and a KLV whose length field announces more than 8 length bytes
PartitionPack == Klv("PartitionPack", mxf_header_partition_pack_key \o <<\h04, \h00>>, 88, NoSet)
Essence(number, len) == Klv("Essence", mxf_essence_element_key \o number, len, NoSet)
BadKlv == [name |-> "Bad", key |-> mxf_metadata_preface_key, ber |-> <<\h89>>,
           len |-> 0, set |-> NoSet]


(***************************************************************************)
(* SpecMxf: mxf_read_header on a file whose header metadata arrives in any *)
(* order, each step of its loop reading the next KLV of the file, then     *)
(* mxf_read_packet calls on the rest of the file.                          *)
(*   mx.seen   the names of the metadata sets the header loop has read     *)
(*   mx.stop   the name of the KLV at which mxf_read_header returned       *)
(*   mx.first  the offset of the first essence element, mx.tail the KLVs   *)
(*             of the file from there to its end                           *)
(*   mx.pkts   one record per mxf_read_packet call                         *)
(*   mx.close  the result of mxf_read_close, once it was called            *)
(***************************************************************************)
MaxTail == 3

\* mxf_read_close was not called
NoClose == [called |-> FALSE]

NewMx ==
    [phase |-> "header", pos |-> 0, seen |-> {},
     mxf |-> NewMXFContext, streams |-> <<>>, ret |-> 0,
     first |-> 0, tail |-> <<>>, stop |-> "none", pkts |-> <<>>,
     close |-> NoClose]

InitMxf ==
    /\ pb = NewIO
    /\ sz = IdleSz
    /\ eb = IdleEb
    /\ sk = IdleSk
    /\ mk = IdleMk
    /\ mx = NewMx

\* one pass of the loop of mxf_read_header over a metadata set with the
\* given key: read the KLV, run the handler, fail if it returned < 0
HeaderSet(key, handler(_, _)) ==
    /\ mx.phase = "header"
    /\ \E k \in {o \in Pool : o.name \notin mx.seen /\ IS_KLV_KEY(o.key, key)} :
          LET r == klv_read_packet(k, mx.pos)
              h == handler(mx.mxf, r.klv)
          IN  mx' = [mx EXCEPT !.pos = r.pos + r.klv.length,
                               !.seen = @ \cup {k.name},
                               !.stop = IF h.ret < 0 THEN k.name ELSE "none",
                               !.mxf = h.mxf,
                               !.ret = h.ret,
                               !.phase = IF h.ret < 0 THEN "failed" ELSE "header"]
    /\ UNCHANGED <<pb, sz, eb, sk, mk>>

HdrTrack == HeaderSet(mxf_metadata_track_key, mxf_read_metadata_track)
HdrSourcePackage ==
    HeaderSet(mxf_metadata_source_package_key, mxf_read_metadata_source_package)
HdrSequence == HeaderSet(mxf_metadata_sequence_key, mxf_read_metadata_sequence)
HdrMaterialPackage ==
    HeaderSet(mxf_metadata_material_package_key, mxf_read_metadata_material_package)
HdrSourceClip == HeaderSet(mxf_metadata_source_clip_key, mxf_read_metadata_source_clip)
HdrMultipleDescriptor ==
    HeaderSet(mxf_metadata_multiple_descriptor_key,
              mxf_read_metadata_multiple_descriptor)
HdrWaveDescriptor ==
    HeaderSet(mxf_metadata_wave_descriptor_key, mxf_read_metadata_generic_descriptor)
HdrMpegVideoDescriptor ==
    HeaderSet(mxf_metadata_mpegvideo_descriptor_key,
              mxf_read_metadata_generic_descriptor)
HdrPreface == HeaderSet(mxf_metadata_preface_key, mxf_read_metadata_preface)
HdrContentStorage ==
    HeaderSet(mxf_metadata_content_storage_key, mxf_read_metadata_content_storage)

\* a KLV with none of the keys of the loop is skipped: the partition pack
\* that opens the file
HdrSkip ==
    /\ mx.phase = "header"
    /\ mx.pos = 0
    /\ LET r == klv_read_packet(PartitionPack, mx.pos)
       IN  mx' = [mx EXCEPT !.pos = r.pos + r.klv.length]
    /\ UNCHANGED <<pb, sz, eb, sk, mk>>

\* klv_read_packet fails
HdrBadKlv ==
    /\ mx.phase = "header"
    /\ LET r == klv_read_packet(BadKlv, mx.pos)
       IN  /\ r.ret < 0
           /\ mx' = [mx EXCEPT !.pos = r.pos, !.stop = BadKlv.name,
                               !.ret = -1, !.phase = "failed"]
    /\ UNCHANGED <<pb, sz, eb, sk, mk>>

\* the end of mxf_read_header with the result p of
\* mxf_parse_structural_metadata and the cursor at pos; first and tail are
\* the rest of the file
Opened(p, pos, first, tail, name) ==
    [mx EXCEPT !.pos = pos,
               !.first = first,
               !.tail = tail,
               !.stop = name,
               !.streams = p.streams,
               !.ret = p.ret,
               !.phase = IF p.ub THEN "ub"
                         ELSE IF p.ret < 0 THEN "failed"
                         ELSE "opened"]
HeaderEnd(pos, first, tail, name) ==
    mx' = Opened(mxf_parse_structural_metadata(mx.mxf), pos, first, tail, name)

\* what follows the first essence element is read only if the header is
\* read without error
ParseOk(p) == ~p.ub /\ p.ret >= 0
HeaderOk(mxf) == ParseOk(mxf_parse_structural_metadata(mxf))

TailKlvs == {Essence(PictureNumber, 5), Essence(SoundNumber, 300),
             PartitionPack, BadKlv}
Tails == {t \in UNION {[1 .. n -> TailKlvs] : n \in 1 .. MaxTail} :
             IS_KLV_KEY(t[1].key, mxf_essence_element_key)}

rewind_missing(r) == r.pos
\* url_fseek(&s->pb, klv.offset, SEEK_SET)
rewind(r) == r.klv.offset

\* the first essence element ends the loop
HdrEssence ==
    /\ mx.phase = "header"
    /\ \E tail \in IF HeaderOk(mx.mxf) THEN Tails
                   ELSE {<<Essence(PictureNumber, 5)>>} :
          LET r == klv_read_packet(tail[1], mx.pos)
          IN  HeaderEnd(rewind(r), mx.pos, tail, tail[1].name)
    /\ UNCHANGED <<pb, sz, eb, sk, mk>>

\* the file ends: url_feof ends the loop
HdrEof ==
    /\ mx.phase = "header"
    /\ HeaderEnd(mx.pos, mx.pos, <<>>, "EOF")
    /\ UNCHANGED <<pb, sz, eb, sk, mk>>

\* the offset of the n-th KLV of the tail, and the size of the file
RECURSIVE TailOffset(_, _, _)
TailOffset(tail, first, n) ==
    IF n <= 1 THEN first
    ELSE TailOffset(tail, first, n - 1) + KlvSize(tail[n - 1])
FileSize(m) == TailOffset(m.tail, m.first, Len(m.tail) + 1)

\* the byte stream reports its end when the cursor is at the end of the file
url_feof(m, pos) == pos >= FileSize(m)

\* the KLV that a read at pos sees.  Value bytes are not followed: a read
\* that starts inside a KLV sees 16 bytes that match no key and a length 0
JunkKlv == [name |-> "Junk", key |-> [n \in 1 .. 16 |-> -1], ber |-> <<0>>,
            len |-> 0, set |-> NoSet]
KlvAt(m, pos) ==
    LET hit == {n \in Idx(m.tail) : TailOffset(m.tail, m.first, n) = pos}
    IN  IF hit = {} THEN JunkKlv ELSE m.tail[MinOf(hit)]

NoPacket == [data |-> -1, size |-> 0, stream_index |-> -1]
\* the packet holds the size bytes of the file at offset pos
av_get_packet(pos, size) == [data |-> pos, size |-> size, stream_index |-> -1]

\* url_fskip(pb, offset) is url_fseek(pb, offset, SEEK_CUR): the cursor
\* moves by offset, backwards when offset is negative
url_fskip(pos, offset) == pos + offset

\* the while loop of mxf_read_packet with the cursor at pos, `heads` being
\* the cursor positions at which the loop has tested url_feof so far.  The
\* loop keeps no state but the cursor: when it tests url_feof at a position
\* for the second time it does not end (hang).
\* [ret, pkt, pos, hang]: the result, the packet and the cursor on return
RECURSIVE read_packet_loop(_, _, _)
read_packet_loop(m, pos, heads) ==
    IF pos \in heads
    THEN [ret |-> 0, pkt |-> NoPacket, pos |-> pos, hang |-> TRUE]
    ELSE IF url_feof(m, pos)
    THEN [ret |-> AVERROR_IO, pkt |-> NoPacket, pos |-> pos, hang |-> FALSE]
    ELSE
      LET r == klv_read_packet(KlvAt(m, pos), pos)
      IN  IF r.ret < 0
          THEN [ret |-> -1, pkt |-> NoPacket, pos |-> r.pos, hang |-> FALSE]
          ELSE IF IS_KLV_KEY(r.klv.key, mxf_essence_element_key)
          THEN LET pkt == [av_get_packet(r.pos, r.klv.length) EXCEPT
                              !.stream_index = mxf_get_stream_index(m.streams, r.klv)]
               IN  [ret |-> IF pkt.stream_index = -1 THEN -1 ELSE 0,
                    pkt |-> pkt,
                    pos |-> r.pos + r.klv.length, hang |-> FALSE]
          ELSE read_packet_loop(m, url_fskip(r.pos, r.klv.length),
                                heads \cup {pos})

mxf_read_packet(m, pos) == read_packet_loop(m, pos, {})

(***************************************************************************)
(* mxf_read_close.  A block of memory is named <<uid, what>>: the object   *)
(* read from the set with the InstanceUID uid ("object") or one of its     *)
(* arrays; the arrays of MXFContext have the uid 0.  An array of no        *)
(* element is not told apart from no array.  st is [ub, freed]: a NULL     *)
(* pointer was dereferenced, and the blocks passed to av_freep so far, in  *)
(* order (av_freep of a NULL pointer frees nothing).                       *)
(***************************************************************************)
Block(uid, what) == <<uid, what>>
\* av_freep of the array a of the object uid
FreeArray(uid, what, a) == IF Len(a) = 0 THEN <<>> ELSE <<Block(uid, what)>>
\* av_freep of every element of an array of pointers
RECURSIVE FreeEach(_, _)
FreeEach(p, k) ==
    IF k > Len(p) THEN <<>>
    ELSE (IF IsNull(p[k]) THEN <<>> ELSE <<Block(p[k].uid, "object")>>)
         \o FreeEach(p, k + 1)

\* the loop over the tracks of one package
RECURSIVE close_tracks(_, _, _)
close_tracks(tracks, j, st) ==
    IF st.ub \/ j > Len(tracks) THEN st
    ELSE IF IsNull(tracks[j]) \/ IsNull(tracks[j].sequence)
    THEN [st EXCEPT !.ub = TRUE]
    ELSE LET sequence == tracks[j].sequence
         IN  close_tracks(tracks, j + 1,
                 [st EXCEPT !.freed =
                     @ \o FreeEach(sequence.structural_components, 1)
                       \o FreeArray(sequence.uid, "structural_components_refs",
                                    sequence.structural_components_refs)
                       \o FreeArray(sequence.uid, "structural_components",
                                    sequence.structural_components)
                       \o <<Block(sequence.uid, "object"),
                            Block(tracks[j].uid, "object")>>])

\* what follows the loop over the tracks of the package
close_descriptor(package, st) ==
    IF st.ub THEN st
    ELSE [st EXCEPT !.freed =
            @ \o FreeArray(package.uid, "tracks_refs", package.tracks_refs)
              \o FreeArray(package.uid, "tracks", package.tracks)
              \o (IF IsNull(package.descriptor) THEN <<>>
                  ELSE FreeEach(package.descriptor.sub_descriptors, 1)
                       \o FreeArray(package.descriptor.uid, "sub_descriptors_refs",
                                    package.descriptor.sub_descriptors_refs)
                       \o FreeArray(package.descriptor.uid, "sub_descriptors",
                                    package.descriptor.sub_descriptors)
                       \o <<Block(package.descriptor.uid, "object")>>)
              \o <<Block(package.uid, "object")>>]

\* the loop over the packages
RECURSIVE close_packages(_, _, _)
close_packages(packages, i, st) ==
    IF st.ub \/ i > Len(packages) THEN st
    ELSE IF IsNull(packages[i]) THEN [st EXCEPT !.ub = TRUE]
    ELSE close_packages(packages, i + 1,
             close_descriptor(packages[i],
                 close_tracks(packages[i].tracks, 1, st)))

mxf_read_close(mxf) ==
    LET st == close_packages(mxf.packages, 1, [ub |-> FALSE, freed |-> <<>>])
    IN  [called |-> TRUE, ret |-> 0, ub |-> st.ub,
         freed |-> IF st.ub THEN st.freed
                   ELSE st.freed
                        \o FreeArray(0, "packages_refs", mxf.packages_refs)
                        \o FreeArray(0, "packages", mxf.packages)
                        \o FreeEach(mxf.essence_container_data_sets, 1)
                        \o FreeArray(0, "essence_container_data_sets_refs",
                                     mxf.essence_container_data_sets_refs)
                        \o FreeArray(0, "essence_container_data_sets",
                                     mxf.essence_container_data_sets)
                        \o FreeArray(0, "essence_containers_uls",
                                     mxf.essence_containers_uls)]

\* mxf_read_close, once mxf_read_header has returned
ReadClose ==
    /\ mx.phase \in {"opened", "failed"}
    /\ ~mx.close.called
    /\ mx' = [mx EXCEPT !.close = mxf_read_close(mx.mxf)]
    /\ UNCHANGED <<pb, sz, eb, sk, mk>>

\* one mxf_read_packet call; the log keeps the cursor the call started from
ReadPacket ==
    /\ mx.phase = "opened"
    /\ ~mx.close.called
    /\ Len(mx.pkts) <= Len(mx.tail)
    /\ LET r == mxf_read_packet(mx, mx.pos)
       IN  mx' = IF r.hang THEN [mx EXCEPT !.phase = "hang"]
                 ELSE [mx EXCEPT !.pos = r.pos,
                                 !.pkts = Append(@, [ret |-> r.ret, pkt |-> r.pkt,
                                                     from |-> mx.pos])]
    /\ UNCHANGED <<pb, sz, eb, sk, mk>>

NextMxf ==
    \/ HdrTrack
    \/ HdrSourcePackage
    \/ HdrSequence
    \/ HdrMaterialPackage
    \/ HdrSourceClip
    \/ HdrMultipleDescriptor
    \/ HdrWaveDescriptor
    \/ HdrMpegVideoDescriptor
    \/ HdrPreface
    \/ HdrContentStorage
    \/ HdrSkip
    \/ HdrBadKlv
    \/ HdrEssence
    \/ HdrEof
    \/ ReadPacket
    \/ ReadClose

SpecMxf == InitMxf /\ [][NextMxf]_vars

(***************************************************************************)
(* What the file says, read off the KLVs of the pool and not off the       *)
(* demuxer's state: the references of a set, the set that refers to it,    *)
(* the streams of the complete file.                                       *)
(***************************************************************************)
Range(f) == {f[x] : x \in DOMAIN f}
Field(k, name) == IF name \in DOMAIN k.set THEN {k.set[name]} ELSE {}
Batch(k, name) == IF name \in DOMAIN k.set THEN Range(k.set[name]) ELSE {}
RefsOf(k) ==
    Batch(k, "packages_refs") \cup Batch(k, "tracks_refs")
        \cup Field(k, "sequence_ref") \cup Batch(k, "structural_components_refs")
        \cup Field(k, "descriptor_ref") \cup Batch(k, "sub_descriptors_refs")
HasUid(k) == "uid" \in DOMAIN k.set
Referrers(o) == {k \in Pool : HasUid(o) /\ o.set.uid \in RefsOf(k)}
Named(name) == CHOOSE k \in Pool : k.name = name
AllNames == {k.name : k \in Pool}
\* the sets that some other set refers to
ReferencedNames == {k.name : k \in {o \in Pool : Referrers(o) # {}}}
\* the set a metadata set hangs from was read by the header loop
ParentNames == [n \in AllNames |-> {k.name : k \in Referrers(Named(n))}]
ParentSeen(o) == ParentNames[o.name] \cap mx.seen # {}

\* the uid of the objects attached under MXFContext
AttachedUids(mxf) ==
    UNION {
      IF IsNull(mxf.packages[i]) THEN {}
      ELSE {mxf.packages[i].uid}
           \cup (IF IsNull(mxf.packages[i].descriptor) THEN {}
                 ELSE {mxf.packages[i].descriptor.uid}
                      \cup {mxf.packages[i].descriptor.sub_descriptors[j].uid :
                              j \in {j \in Idx(mxf.packages[i].descriptor.sub_descriptors) :
                                  ~IsNull(mxf.packages[i].descriptor.sub_descriptors[j])}})
           \cup UNION {
                  IF IsNull(mxf.packages[i].tracks[j]) THEN {}
                  ELSE {mxf.packages[i].tracks[j].uid}
                       \cup (IF IsNull(mxf.packages[i].tracks[j].sequence) THEN {}
                             ELSE {mxf.packages[i].tracks[j].sequence.uid}
                                  \cup {mxf.packages[i].tracks[j].sequence
                                            .structural_components[k].uid :
                                          k \in {k \in Idx(mxf.packages[i].tracks[j].sequence
                                                             .structural_components) :
                                              ~IsNull(mxf.packages[i].tracks[j].sequence
                                                         .structural_components[k])}}) :
                  j \in Idx(mxf.packages[i].tracks)} :
      i \in Idx(mxf.packages)}

\* slot ptr, which records the reference ref, points to the object with
\* that InstanceUID
Points(ref, ptr) == ~IsNull(ptr) /\ ptr.uid = ref

SequenceResolved(q) ==
    \A k \in Idx(q.structural_components_refs) :
        Points(q.structural_components_refs[k], q.structural_components[k])
TrackResolved(t) ==
    /\ Points(t.sequence_ref, t.sequence)
    /\ SequenceResolved(t.sequence)
DescriptorResolved(d) ==
    \A j \in Idx(d.sub_descriptors_refs) :
        Points(d.sub_descriptors_refs[j], d.sub_descriptors[j])
PackageResolved(p) ==
    /\ \A j \in Idx(p.tracks_refs) :
          Points(p.tracks_refs[j], p.tracks[j]) /\ TrackResolved(p.tracks[j])
    /\ p.descriptor_ref # 0 =>
          Points(p.descriptor_ref, p.descriptor) /\ DescriptorResolved(p.descriptor)
\* every reference slot points to the object whose InstanceUID it records
AllResolved(mxf) ==
    /\ mxf.packages_refs # <<>>
    /\ \A i \in Idx(mxf.packages_refs) :
          Points(mxf.packages_refs[i], mxf.packages[i])
              /\ PackageResolved(mxf.packages[i])

\* the header loop returned at the end of the header metadata
HeaderRead == mx.phase # "header" /\ mx.stop \in {"Essence", "EOF"}
\* the header loop returned at a metadata set
FailedAtSet == mx.phase = "failed" /\ mx.stop \in AllNames

(***************************************************************************)
(* Reference resolution (SpecMxf)                                          *)
(***************************************************************************)
\* the InstanceUIDs of the sets of S
UidsOf(S) == {o.set.uid : o \in {k \in S : HasUid(k)}}
\* the metadata sets that were read
SeenSets == {o \in Pool : o.name \in mx.seen}
\* the InstanceUIDs of the sets that were read and whose object hangs nowhere
OrphanUids == UidsOf(SeenSets) \ AttachedUids(mx.mxf)

StreamView(st) ==
    [id |-> st.id, duration |-> st.duration, start_time |-> st.start_time,
     time_base |-> st.time_base, codec |-> st.codec,
     track_number |-> st.priv_data.track_number]
Views(streams) == [i \in DOMAIN streams |-> StreamView(streams[i])]

\* the streams of the two material tracks of the complete file
PictureStream ==
    [id |-> 1, duration |-> 250, start_time |-> 0,
     time_base |-> [num |-> 1, den |-> 25],
     codec |-> [codec_type |-> "CODEC_TYPE_VIDEO",
                codec_id |-> "CODEC_ID_MPEG2VIDEO",
                width |-> 720, height |-> 576, channels |-> 0,
                bits_per_sample |-> 0, sample_rate |-> 0],
     track_number |-> PictureNumber]
SoundStream ==
    [id |-> 2, duration |-> AV_NOPTS_VALUE, start_time |-> 0,
     time_base |-> [num |-> 1, den |-> 25],
     codec |-> [codec_type |-> "CODEC_TYPE_AUDIO",
                codec_id |-> "CODEC_ID_PCM_S24LE",
                width |-> 0, height |-> 0, channels |-> 2,
                bits_per_sample |-> 24, sample_rate |-> 48000],
     track_number |-> SoundNumber]
\* a stream that found no descriptor keeps its codec type only
Undescribed(view) ==
    [view EXCEPT !.codec = [codec_type |-> view.codec.codec_type,
                            codec_id |-> "CODEC_ID_NONE",
                            width |-> 0, height |-> 0, channels |-> 0,
                            bits_per_sample |-> 0, sample_rate |-> 0]]

\* the sets of the chain of each material track; the source package SP is
\* in both chains
PictureChain == {"MT1", "MS1", "MC1", "ST1", "SS1", "D1"}
SoundChain   == {"MT2", "MS2", "MC2", "ST2", "SS2", "D2"}
\* the streams of the material tracks whose chain does not hold x
StreamsWithout(x) ==
    IF x \in PictureChain THEN <<SoundStream>>
    ELSE IF x \in SoundChain THEN <<PictureStream>>
    ELSE <<>>
\* the sets whose only referrer is x
ChildrenOf(x) == {n \in AllNames : ParentNames[n] = {x}}

\* the header of the file without x was read to the end of the metadata
ReadWithout(x) == HeaderRead /\ mx.seen = AllNames \ {x}
\* mxf_read_header returned on the file that lacks x: at the end of the
\* metadata, or at a set that refers back to x
ReturnedWithout(x) ==
    /\ x \notin mx.seen
    /\ \/ ReadWithout(x)
       \/ FailedAtSet /\ mx.stop \in ChildrenOf(x)

IsEssence(k) == SubSeq(k.key, 1, 12) = mxf_essence_element_key
Malformed(k) == k.ber[1] > 128 + 8
\* the KLVs of the tail at which a mxf_read_packet call returns, and the
\* i-th of them in file order
StopIdx(tail) == {n \in Idx(tail) : IsEssence(tail[n]) \/ Malformed(tail[n])}
NthStop(tail, i) ==
    CHOOSE n \in StopIdx(tail) : Cardinality({m \in StopIdx(tail) : m <= n}) = i
\* the offset of the value of the n-th KLV of the tail
ValueOffset(m, n) == TailOffset(m.tail, m.first, n) + 16 + Len(m.tail[n].ber)
\* the streams whose track number is the given one
StreamsOf(streams, number) ==
    {i \in Idx(streams) : streams[i].priv_data.track_number = number}

\* what a call must return at the n-th KLV of the tail
ReturnAt(m, n, S) ==
    IF Malformed(m.tail[n]) THEN [ret |-> -1, pkt |-> NoPacket]
    ELSE [ret |-> IF S = {} THEN -1 ELSE 0,
          pkt |-> [data |-> ValueOffset(m, n),
                   size |-> m.tail[n].len,
                   stream_index |-> IF S = {} THEN -1 ELSE MinOf(S) - 1]]
\* what the i-th mxf_read_packet call after the header must return
ExpectedCall(m, i) ==
    IF i > Cardinality(StopIdx(m.tail))
    THEN [ret |-> AVERROR_IO, pkt |-> NoPacket]
    ELSE ReturnAt(m, NthStop(m.tail, i),
                  StreamsOf(m.streams,
                            SubSeq(m.tail[NthStop(m.tail, i)].key, 13, 16)))

\* C5: after a successful header, the i-th mxf_read_packet call returns the
\* i-th essence element of the file, KLVs with another key being skipped:
\* the packet holds the `length` value bytes of that KLV and its
\* stream_index is the index of the stream whose track_number equals the
\* last 4 bytes of the key (-1, and the call fails, if there is none).  A
\* malformed length field makes the call fail, and past the last essence
\* element the call returns AVERROR_IO.
C5_PacketsInFileOrder ==
    mx.phase = "opened" =>
        \A i \in Idx(mx.pkts) :
            [ret |-> mx.pkts[i].ret, pkt |-> mx.pkts[i].pkt] = ExpectedCall(mx, i)

\* C5: the second call started at a partition pack, skipped it and returned
\* the sound essence element behind it for stream 1
C5_Witness ==
    /\ mx.phase = "opened"
    /\ Len(mx.tail) = 3
    /\ mx.tail[2] = PartitionPack
    /\ Len(mx.pkts) >= 2
    /\ mx.pkts[2].from = TailOffset(mx.tail, mx.first, 2)
    /\ mx.pkts[2].ret = 0
    /\ mx.pkts[2].pkt.stream_index = 1
    /\ mx.pkts[2].pkt.data = ValueOffset(mx, 3)
    /\ mx.pkts[2].pkt.size = 300

\* C6: mxf_read_header ends at the first essence element with the cursor on
\* the first key byte of that KLV, and the first mxf_read_packet call
\* starts there and returns the value of that same KLV.
C6_FirstPacketIsFirstEssence ==
    mx.stop = "Essence" =>
        /\ IsEssence(mx.tail[1])
        /\ mx.pkts = <<>> => mx.pos = mx.first
        /\ mx.pkts # <<>> =>
              /\ mx.pkts[1].from = mx.first
              /\ mx.pkts[1].pkt.data = mx.first + 16 + Len(mx.tail[1].ber)
              /\ mx.pkts[1].pkt.size = mx.tail[1].len

\* C6: the header of the complete file was read up to the first essence
\* element, and the first mxf_read_packet call returned it
C6_Witness ==
    /\ mx.phase = "opened"
    /\ mx.stop = "Essence"
    /\ mx.seen = AllNames
    /\ mx.first > 0
    /\ Len(mx.pkts) = 1
    /\ mx.pkts[1].ret = 0
    /\ mx.pkts[1].pkt.data = mx.first + 16 + Len(mx.tail[1].ber)
    /\ mx.pos = mx.first + KlvSize(mx.tail[1])

(***************************************************************************)
(* The muxer run: mkv_write_header, mkv_write_packet, mkv_write_trailer.   *)
(* The streams of the run are a video, an audio and a subtitle stream      *)
(* whose codecs have a Matroska codec id string and no extradata.          *)
(***************************************************************************)
\* the identifiers and track types of matroska.h that the run writes
ID ==
    [EBML_ID_HEADER |-> \h1A45DFA3, EBML_ID_EBMLVERSION |-> \h4286,
     EBML_ID_EBMLREADVERSION |-> \h42F7, EBML_ID_EBMLMAXIDLENGTH |-> \h42F2,
     EBML_ID_EBMLMAXSIZELENGTH |-> \h42F3, EBML_ID_DOCTYPE |-> \h4282,
     EBML_ID_DOCTYPEVERSION |-> \h4287, EBML_ID_DOCTYPEREADVERSION |-> \h4285,
     MATROSKA_ID_SEGMENT |-> \h18538067, MATROSKA_ID_TIMECODESCALE |-> \h2AD7B1,
     MATROSKA_ID_TITLE |-> \h7BA9, MATROSKA_ID_MUXINGAPP |-> \h4D80,
     MATROSKA_ID_WRITINGAPP |-> \h5741, MATROSKA_ID_SEGMENTUID |-> \h73A4,
     MATROSKA_ID_DURATION |-> \h4489, MATROSKA_ID_BLOCKDURATION |-> \h9B,
     MATROSKA_ID_TRACKENTRY |-> \hAE,
     MATROSKA_ID_TRACKNUMBER |-> \hD7, MATROSKA_ID_TRACKUID |-> \h73C5,
     MATROSKA_ID_TRACKFLAGLACING |-> \h9C, MATROSKA_ID_TRACKLANGUAGE |-> \h22B59C,
     MATROSKA_ID_CODECID |-> \h86, MATROSKA_ID_CODECPRIVATE |-> \h63A2,
     MATROSKA_ID_TRACKTYPE |-> \h83, MATROSKA_ID_TRACKVIDEO |-> \hE0,
     MATROSKA_ID_VIDEOPIXELWIDTH |-> \hB0, MATROSKA_ID_VIDEOPIXELHEIGHT |-> \hBA,
     MATROSKA_ID_VIDEODISPLAYWIDTH |-> \h54B0,
     MATROSKA_ID_VIDEODISPLAYHEIGHT |-> \h54BA,
     MATROSKA_ID_TRACKAUDIO |-> \hE1, MATROSKA_ID_AUDIOCHANNELS |-> \h9F,
     MATROSKA_ID_AUDIOSAMPLINGFREQ |-> \hB5, MATROSKA_ID_AUDIOBITDEPTH |-> \h6264,
     MATROSKA_ID_POINTENTRY |-> \hBB, MATROSKA_ID_CUETIME |-> \hB3,
     MATROSKA_ID_CUETRACKPOSITION |-> \hB7, MATROSKA_ID_CUETRACK |-> \hF7,
     MATROSKA_ID_CUECLUSTERPOSITION |-> \hF1,
     MATROSKA_ID_SIMPLEBLOCK |-> \hA3, MATROSKA_ID_BLOCK |-> \hA1,
     MATROSKA_TRACK_TYPE_VIDEO |-> 1, MATROSKA_TRACK_TYPE_AUDIO |-> 2,
     MATROSKA_TRACK_TYPE_SUBTITLE |-> 17]

\* av_dbl2int of the double that the uint64_t v converts to, for v < 2^53
\* (no rounding): sign 0, exponent 1023 + e, the bits of v below its
\* highest set bit e as the top of the mantissa
av_dbl2int(v) ==
    IF IsZero(v) THEN v
    ELSE LET e == CHOOSE i \in Bit : v[i] = 1 /\ \A j \in Bit : j > i => v[j] = 0
         IN  Bits([i \in Bit |->
                     IF i = 63 THEN 0
                     ELSE IF i >= 52 THEN ((1023 + e) \div (2 ^ (i - 52))) % 2
                     ELSE IF i >= 52 - e /\ i - 52 + e >= 0 THEN v[i - 52 + e]
                     ELSE 0])

put_ebml_float(io, elementid, val) ==
    put_buffer(put_ebml_size(put_ebml_id(io, elementid), U64Of(8), 0),
               BigEndian(av_dbl2int(val), 8))

\* a run of writer calls, each [t, id, v]: put_ebml_uint, put_ebml_float,
\* put_ebml_string, put_ebml_binary or put_ebml_void of the value v
put_element(io, e) ==
    CASE e.t = "uint"   -> put_ebml_uint(io, e.id, U64Of(e.v))
      [] e.t = "float"  -> put_ebml_float(io, e.id, U64Of(e.v))
      [] e.t = "string" -> put_ebml_string(io, e.id, e.v)
      [] e.t = "binary" -> put_ebml_binary(io, e.id, e.v)
      [] e.t = "void"   -> put_ebml_void(io, e.v)
RECURSIVE put_elements(_, _, _)
put_elements(io, es, i) ==
    IF io.ub \/ i > Len(es) THEN io ELSE put_elements(put_element(io, es[i]), es, i + 1)
Uint(id, v)   == [t |-> "uint", id |-> id, v |-> v]
Float(id, v)  == [t |-> "float", id |-> id, v |-> v]
String(id, v) == [t |-> "string", id |-> id, v |-> v]
\* start_ebml_master(id), the calls es, end_ebml_master
put_master(io, id, es) ==
    end_ebml_master(put_elements(start_ebml_master(io, id), es, 1),
                    start_ebml_master(io, id).pos)

\* strings of the program
Str ==
    [matroska |-> <<109, 97, 116, 114, 111, 115, 107, 97>>, und |-> <<117, 110, 100>>,
     LIBAVFORMAT_IDENT |-> <<76, 97, 118, 102, 53, 49, 46, 49, 52, 46, 48>>,
     V_MPEG4 |-> <<86, 95, 77, 80, 69, 71, 52, 47, 73, 83, 79, 47, 65, 83, 80>>, A_MP3 |-> <<65, 95, 77, 80, 69, 71, 47, 76, 51>>,
     S_TEXT |-> <<83, 95, 84, 69, 88, 84, 47, 85, 84, 70, 56>>, title |-> <<116>>,
     MATROSKA_CODEC_ID_VIDEO_VFW_FOURCC |->
         <<86, 95, 77, 83, 47, 86, 70, 87, 47, 70, 79, 85, 82, 67, 67>>,
     MATROSKA_CODEC_ID_AUDIO_ACM |-> <<65, 95, 77, 83, 47, 65, 67, 77>>]

\* AVStream with its AVCodecContext: codec_name is the string that
\* ff_mkv_codec_tags has for codec_id, bit_depth is av_get_bits_per_sample
Streams ==
    << [codec_type |-> "CODEC_TYPE_VIDEO", codec_id |-> "CODEC_ID_MPEG4",
        codec_name |-> Str.V_MPEG4, language |-> <<>>, extradata_size |-> 0,
        flags_bitexact |-> FALSE,
        width |-> 320, height |-> 240,
        sample_aspect_ratio |-> [num |-> 0, den |-> 1],
        channels |-> 0, sample_rate |-> 0, bit_depth |-> 0],
       [codec_type |-> "CODEC_TYPE_AUDIO", codec_id |-> "CODEC_ID_MP3",
        codec_name |-> Str.A_MP3, language |-> <<>>, extradata_size |-> 0,
        flags_bitexact |-> FALSE,
        width |-> 0, height |-> 0,
        sample_aspect_ratio |-> [num |-> 0, den |-> 1],
        channels |-> 2, sample_rate |-> 44100, bit_depth |-> 0],
       [codec_type |-> "CODEC_TYPE_SUBTITLE", codec_id |-> "CODEC_ID_TEXT",
        codec_name |-> Str.S_TEXT, language |-> <<>>, extradata_size |-> 0,
        flags_bitexact |-> FALSE,
        width |-> 0, height |-> 0,
        sample_aspect_ratio |-> [num |-> 0, den |-> 1],
        channels |-> 0, sample_rate |-> 0, bit_depth |-> 0] >>

\* the loop over ff_mkv_codec_tags found codec_id: the table has a string
\* for it
native_id(codec) == codec.codec_name # <<>>

\* `if (!native_id)` of the video and audio cases: the CodecID of the VFW or
\* ACM mode and a CodecPrivate master around the header that put_bmp_header
\* or put_wav_header writes, codec.riff_size bytes
riff_codecpriv(io, codec, codecid) ==
    IF native_id(codec) THEN io
    ELSE end_ebml_master(
             put_opaque(
                 start_ebml_master(
                     put_ebml_string(io, ID.MATROSKA_ID_CODECID, codecid),
                     ID.MATROSKA_ID_CODECPRIVATE),
                 codec.riff_size),
             start_ebml_master(
                 put_ebml_string(io, ID.MATROSKA_ID_CODECID, codecid),
                 ID.MATROSKA_ID_CODECPRIVATE).pos)

\* the audio case returns -1: no native codec id and codec_get_tag finds no
\* tag in codec_wav_tags
no_codec_id(codec) ==
    /\ codec.codec_type = "CODEC_TYPE_AUDIO"
    /\ ~native_id(codec)
    /\ codec.wav_tag = 0

\* the calls of one case of `switch (codec->codec_type)`: TrackType, the
\* VFW or ACM mode and the Video or Audio master
video_elements(codec) ==
    <<Uint(ID.MATROSKA_ID_VIDEOPIXELWIDTH, codec.width),
      Uint(ID.MATROSKA_ID_VIDEOPIXELHEIGHT, codec.height)>>
    \o (IF codec.sample_aspect_ratio.num # 0
        THEN <<Uint(ID.MATROSKA_ID_VIDEODISPLAYWIDTH, codec.sample_aspect_ratio.num),
               Uint(ID.MATROSKA_ID_VIDEODISPLAYHEIGHT, codec.sample_aspect_ratio.den)>>
        ELSE <<>>)
audio_elements(codec) ==
    <<Uint(ID.MATROSKA_ID_AUDIOCHANNELS, codec.channels),
      Float(ID.MATROSKA_ID_AUDIOSAMPLINGFREQ, codec.sample_rate)>>
    \o (IF codec.bit_depth # 0
        THEN <<Uint(ID.MATROSKA_ID_AUDIOBITDEPTH, codec.bit_depth)>>
        ELSE <<>>)
put_track_type(io, codec) ==
    CASE codec.codec_type = "CODEC_TYPE_VIDEO" ->
           put_master(riff_codecpriv(put_ebml_uint(io, ID.MATROSKA_ID_TRACKTYPE,
                                         U64Of(ID.MATROSKA_TRACK_TYPE_VIDEO)),
                                     codec, Str.MATROSKA_CODEC_ID_VIDEO_VFW_FOURCC),
                      ID.MATROSKA_ID_TRACKVIDEO, video_elements(codec))
      [] codec.codec_type = "CODEC_TYPE_AUDIO" ->
           IF no_codec_id(codec)
           THEN put_ebml_uint(io, ID.MATROSKA_ID_TRACKTYPE,
                              U64Of(ID.MATROSKA_TRACK_TYPE_AUDIO))
           ELSE put_master(riff_codecpriv(put_ebml_uint(io, ID.MATROSKA_ID_TRACKTYPE,
                                              U64Of(ID.MATROSKA_TRACK_TYPE_AUDIO)),
                                          codec, Str.MATROSKA_CODEC_ID_AUDIO_ACM),
                           ID.MATROSKA_ID_TRACKAUDIO, audio_elements(codec))
      [] codec.codec_type = "CODEC_TYPE_SUBTITLE" ->
           put_ebml_uint(io, ID.MATROSKA_ID_TRACKTYPE,
                         U64Of(ID.MATROSKA_TRACK_TYPE_SUBTITLE))
      [] OTHER -> io

\* the calls of one TrackEntry before the switch, for stream i (from 0)
track_elements(st, i) ==
    <<Uint(ID.MATROSKA_ID_TRACKNUMBER, i + 1),
      Uint(ID.MATROSKA_ID_TRACKUID, i + 1),
      Uint(ID.MATROSKA_ID_TRACKFLAGLACING, 0),
      String(ID.MATROSKA_ID_TRACKLANGUAGE,
             IF st.language # <<>> THEN st.language ELSE Str.und)>>
    \o (IF native_id(st) THEN <<String(ID.MATROSKA_ID_CODECID, st.codec_name)>>
        ELSE <<>>)
    \o (IF native_id(st) /\ st.extradata_size # 0
        THEN <<[t |-> "binary", id |-> ID.MATROSKA_ID_CODECPRIVATE,
                v |-> st.extradata_size]>>
        ELSE <<>>)

\* one iteration of the loop of mkv_write_tracks; the iteration that
\* returns -1 leaves the TrackEntry open
put_track_entry(io, st, i) ==
    IF no_codec_id(st)
    THEN put_track_type(
             put_elements(start_ebml_master(io, ID.MATROSKA_ID_TRACKENTRY),
                          track_elements(st, i), 1),
             st)
    ELSE end_ebml_master(
        put_track_type(
            put_elements(start_ebml_master(io, ID.MATROSKA_ID_TRACKENTRY),
                         track_elements(st, i), 1),
            st),
        start_ebml_master(io, ID.MATROSKA_ID_TRACKENTRY).pos)

\* the loop over the streams from stream i, up to the iteration that
\* returns -1
RECURSIVE put_track_entries(_, _, _)
put_track_entries(io, streams, i) ==
    IF io.ub \/ i >= Len(streams) THEN io
    ELSE IF no_codec_id(streams[i + 1]) THEN put_track_entry(io, streams[i + 1], i)
    ELSE put_track_entries(put_track_entry(io, streams[i + 1], i), streams, i + 1)

\* [ret, io, main_seekhead]
mkv_write_tracks(io, s, main_seekhead) ==
    LET e == mkv_add_seekhead_entry(main_seekhead, MATROSKA_ID_TRACKS, U64Of(io.pos))
    IN  IF e.ret < 0 THEN [ret |-> -1, io |-> io, main_seekhead |-> e.sh]
        ELSE IF \E i \in Idx(s.streams) : no_codec_id(s.streams[i])
        THEN [ret |-> -1,
              io |-> put_track_entries(start_ebml_master(io, MATROSKA_ID_TRACKS),
                                       s.streams, 0),
              main_seekhead |-> e.sh]
        ELSE [ret |-> 0,
              io |-> end_ebml_master(
                         put_track_entries(start_ebml_master(io, MATROSKA_ID_TRACKS),
                                           s.streams, 0),
                         start_ebml_master(io, MATROSKA_ID_TRACKS).pos),
              main_seekhead |-> e.sh]

(***************************************************************************)
(* Cues (mkv_cues): segment_offset and the entries                         *)
(***************************************************************************)
mkv_start_cues(segment_offset) ==
    [segment_offset |-> segment_offset, entries |-> <<>>]

\* mutant: cluster_pos is stored as an absolute offset
mkv_add_cuepoint_absolute(cues, pkt, cluster_pos) ==
    [cues EXCEPT !.entries =
        Append(@, [pts |-> U64Of(pkt.pts), tracknum |-> pkt.stream_index + 1,
                   cluster_pos |-> cluster_pos])]

mkv_add_cuepoint(cues, pkt, cluster_pos) ==
    [cues EXCEPT !.entries =
        Append(@, [pts |-> U64Of(pkt.pts), tracknum |-> pkt.stream_index + 1,
                   cluster_pos |-> cluster_pos - cues.segment_offset])]

\* the number of entries from the i-th on that have its pts, without a gap
RECURSIVE same_pts_run(_, _, _)
\* mutant: every entry is a run of its own
same_pts_run_single(entries, i, j) == 1

same_pts_run(entries, i, j) ==
    IF j < Len(entries) - (i - 1) /\ entries[i + j].pts = entries[i].pts
    THEN same_pts_run(entries, i, j + 1)
    ELSE j

put_track_position(io, entry) ==
    end_ebml_master(
        put_ebml_uint(
            put_ebml_uint(start_ebml_master(io, ID.MATROSKA_ID_CUETRACKPOSITION),
                          ID.MATROSKA_ID_CUETRACK, U64Of(entry.tracknum)),
            ID.MATROSKA_ID_CUECLUSTERPOSITION, U64Of(entry.cluster_pos)),
        start_ebml_master(io, ID.MATROSKA_ID_CUETRACKPOSITION).pos)

RECURSIVE put_track_positions(_, _, _, _)
put_track_positions(io, entries, i, j) ==
    IF io.ub \/ j = 0 THEN io
    ELSE put_track_positions(put_track_position(io, entries[i]), entries, i + 1, j - 1)

\* one iteration of the outer loop of mkv_write_cues, over j entries
put_cuepoint(io, entries, i, j) ==
    end_ebml_master(
        put_track_positions(
            put_ebml_uint(start_ebml_master(io, ID.MATROSKA_ID_POINTENTRY),
                          ID.MATROSKA_ID_CUETIME, entries[i].pts),
            entries, i, j),
        start_ebml_master(io, ID.MATROSKA_ID_POINTENTRY).pos)

RECURSIVE put_cuepoints(_, _, _)
put_cuepoints(io, entries, i) ==
    IF io.ub \/ i > Len(entries) THEN io
    ELSE put_cuepoints(put_cuepoint(io, entries, i, same_pts_run(entries, i, 0)),
                       entries, i + same_pts_run(entries, i, 0))

\* [io, ret]: the stream after the call and the offset returned
mkv_write_cues(io, cues) ==
    [io  |-> end_ebml_master(
                 put_cuepoints(start_ebml_master(io, MATROSKA_ID_CUES),
                               cues.entries, 1),
                 start_ebml_master(io, MATROSKA_ID_CUES).pos),
     ret |-> io.pos]

(***************************************************************************)
(* MatroskaMuxContext and the three muxer entry points.  Each returns      *)
(* [ret, io, mkv]: its result, the stream and the context after the call.  *)
(* md5_ctx is the list of the av_md5_update calls, [data, len]: the first  *)
(* len bytes of the packet numbered data.                                  *)
(***************************************************************************)
NewMuxContext ==
    [segment |-> 0, segment_offset |-> 0, segment_uid |-> 0, cluster |-> 0,
     cluster_pos |-> 0, cluster_pts |-> U64Of(0), duration_offset |-> 0,
     duration |-> U64Of(0), main_seekhead |-> NoSeekhead,
     cluster_seekhead |-> NoSeekhead, cues |-> mkv_start_cues(0),
     md5_ctx |-> <<>>]

BITEXACT(s) == s.streams[1].flags_bitexact

\* the EBML header and the start of the Segment with its two seek heads
header_segment(io, mkv, seg) ==
    [io |-> mkv_start_seekhead(seg, seg.pos, 10).io,
     mkv |-> [mkv EXCEPT
                 !.md5_ctx = <<>>,
                 !.segment = seg.pos,
                 !.segment_offset = seg.pos,
                 !.main_seekhead = mkv_start_seekhead(seg, seg.pos, 10).sh,
                 !.cluster_seekhead = mkv_start_seekhead(seg, seg.pos, 0).sh]]

\* the calls of the Info master up to the reservations
info_elements(s) ==
    <<Uint(ID.MATROSKA_ID_TIMECODESCALE, 1000000)>>
    \o (IF Len(s.title) # 0 THEN <<String(ID.MATROSKA_ID_TITLE, s.title)>> ELSE <<>>)
    \o (IF ~BITEXACT(s)
        THEN <<String(ID.MATROSKA_ID_MUXINGAPP, Str.LIBAVFORMAT_IDENT),
               String(ID.MATROSKA_ID_WRITINGAPP, Str.LIBAVFORMAT_IDENT)>>
        ELSE <<>>)

\* the Info master, a being the stream at the reservation of the segment UID
\* and b the stream at the reservation of the duration
header_info(r, s, e, info, a, b) ==
    [ret |-> 0,
     io |-> end_ebml_master(put_ebml_void(b, 11), info.pos),
     mkv |-> [r.mkv EXCEPT
                 !.main_seekhead = e.sh,
                 !.segment_uid = IF ~BITEXACT(s) THEN a.pos ELSE @,
                 !.duration = U64Of(0),
                 !.duration_offset = b.pos]]
header_uid(r, s, e, info, a) ==
    header_info(r, s, e, info, a, IF ~BITEXACT(s) THEN put_ebml_void(a, 19) ELSE a)
header_info_start(r, s, e, info) ==
    IF e.ret < 0 THEN [ret |-> -1, io |-> r.io, mkv |-> r.mkv]
    ELSE header_uid(r, s, e, info, put_elements(info, info_elements(s), 1))

\* the Tracks master
header_tracks(r, t) ==
    [ret |-> t.ret, io |-> t.io,
     mkv |-> [r.mkv EXCEPT !.main_seekhead = t.main_seekhead]]

\* the first Cluster, c being the stream after start_ebml_master
header_cluster(r, e, c) ==
    IF e.ret < 0 THEN [r EXCEPT !.ret = -1]
    ELSE
    [ret |-> 0,
     io |-> put_ebml_uint(c, MATROSKA_ID_CLUSTERTIMECODE, U64Of(0)),
     mkv |-> [r.mkv EXCEPT
                 !.cluster_seekhead = e.sh,
                 !.cluster_pos = r.io.pos,
                 !.cluster = c.pos,
                 !.cluster_pts = U64Of(0),
                 !.cues = mkv_start_cues(r.mkv.segment_offset)]]

\* each step of mkv_write_header after a step r that did not fail
then_info(r, s) ==
    header_info_start(r, s,
        mkv_add_seekhead_entry(r.mkv.main_seekhead, MATROSKA_ID_INFO, U64Of(r.io.pos)),
        start_ebml_master(r.io, MATROSKA_ID_INFO))
then_tracks(r, s) ==
    IF r.ret < 0 THEN [r EXCEPT !.ret = -1]
    ELSE header_tracks(r, mkv_write_tracks(r.io, s, r.mkv.main_seekhead))
then_cluster(r) ==
    IF r.ret < 0 THEN [r EXCEPT !.ret = -1]
    ELSE header_cluster(r,
             mkv_add_seekhead_entry(r.mkv.cluster_seekhead, MATROSKA_ID_CLUSTER,
                                    U64Of(r.io.pos)),
             start_ebml_master(r.io, MATROSKA_ID_CLUSTER))

ebml_header_elements ==
    <<Uint(ID.EBML_ID_EBMLVERSION, 1), Uint(ID.EBML_ID_EBMLREADVERSION, 1),
      Uint(ID.EBML_ID_EBMLMAXIDLENGTH, 4), Uint(ID.EBML_ID_EBMLMAXSIZELENGTH, 8),
      String(ID.EBML_ID_DOCTYPE, Str.matroska),
      Uint(ID.EBML_ID_DOCTYPEVERSION, 2), Uint(ID.EBML_ID_DOCTYPEREADVERSION, 2)>>

mkv_write_header(io, s, mkv) ==
    then_cluster(
        then_tracks(
            then_info(
                header_segment(io, mkv,
                    start_ebml_master(
                        put_master(io, ID.EBML_ID_HEADER, ebml_header_elements),
                        ID.MATROSKA_ID_SEGMENT)),
                s),
            s))

\* mutant: the block starts with 0x80 | stream_index
mkv_write_block_from_0(io, mkv, blockid, pkt, flags) ==
    LET r == put_opaque(
                 put_buffer(
                     put_ebml_size(put_ebml_id(io, blockid), U64Of(pkt.size + 4), 0),
                     <<128 + (pkt.stream_index % 128)>>
                         \o BigEndian(Sub64(U64Of(pkt.pts), mkv.cluster_pts), 2)
                         \o <<flags>>),
                 pkt.size)
    IN  IF r.ub THEN r
        ELSE [r EXCEPT !.at_block = [n \in Idx(io.open) |-> io.open[n].id]]

\* put_byte(0x80 | (stream_index + 1)), put_be16(pts - cluster_pts),
\* put_byte(flags) and the data of the packet
mkv_write_block(io, mkv, blockid, pkt, flags) ==
    LET r == put_opaque(
                 put_buffer(
                     put_ebml_size(put_ebml_id(io, blockid), U64Of(pkt.size + 4), 0),
                     <<128 + ((pkt.stream_index + 1) % 128)>>
                         \o BigEndian(Sub64(U64Of(pkt.pts), mkv.cluster_pts), 2)
                         \o <<flags>>),
                 pkt.size)
    IN  IF r.ub THEN r
        ELSE [r EXCEPT !.at_block = [n \in Idx(io.open) |-> io.open[n].id]]

\* the branch of mkv_write_packet that starts a new cluster, a being the
\* stream after end_ebml_master and b the stream after start_ebml_master
new_cluster(mkv, pkt, e, a, b) ==
    IF e.ret < 0 THEN [ret |-> -1, io |-> a, mkv |-> mkv]
    ELSE [ret |-> 0,
          io |-> put_ebml_uint(b, MATROSKA_ID_CLUSTERTIMECODE, U64Of(pkt.pts)),
          mkv |-> [mkv EXCEPT
                      !.cluster_seekhead = e.sh,
                      !.cluster_pos = a.pos,
                      !.cluster = b.pos,
                      !.cluster_pts = U64Of(pkt.pts),
                      !.md5_ctx = Append(@, [data |-> pkt.data,
                                             len |-> FFMIN(200, pkt.size)])]]
\* mutant: the new Cluster is not entered in the cluster seek head
start_new_cluster_unlisted(mkv, pkt, a) ==
    new_cluster(mkv, pkt, [ret |-> 0, sh |-> mkv.cluster_seekhead],
        a, start_ebml_master(a, MATROSKA_ID_CLUSTER))

start_new_cluster(mkv, pkt, a) ==
    new_cluster(mkv, pkt,
        mkv_add_seekhead_entry(mkv.cluster_seekhead, MATROSKA_ID_CLUSTER, U64Of(a.pos)),
        a, start_ebml_master(a, MATROSKA_ID_CLUSTER))

\* `url_ftell(pb) > mkv->cluster + 5*1024*1024 || pkt->pts > mkv->cluster_pts
\* + 5000`: pkt->pts is converted to uint64_t for the second comparison
cluster_is_full(io, mkv, pkt) ==
    \/ io.pos > mkv.cluster + 5 * 1024 * 1024
    \/ Lt64(Add64(mkv.cluster_pts, U64Of(5000)), U64Of(pkt.pts))

\* the SimpleBlock, or the BlockGroup of a subtitle packet
put_block(io, mkv, codec, pkt) ==
    IF codec.codec_type # "CODEC_TYPE_SUBTITLE"
    THEN mkv_write_block(io, mkv, ID.MATROSKA_ID_SIMPLEBLOCK, pkt,
                         IF pkt.key THEN 128 ELSE 0)
    ELSE end_ebml_master(
             put_ebml_uint(
                 mkv_write_block(start_ebml_master(io, MATROSKA_ID_BLOCKGROUP),
                                 mkv, ID.MATROSKA_ID_BLOCK, pkt, 0),
                 ID.MATROSKA_ID_DURATION, U64Of(pkt.duration)),
             start_ebml_master(io, MATROSKA_ID_BLOCKGROUP).pos)

\* mutant: the duration only grows
write_packet_block_longest(r, codec, pkt) ==
    IF r.ret < 0 THEN r
    ELSE [ret |-> 0,
          io |-> put_block(r.io, r.mkv, codec, pkt),
          mkv |-> [r.mkv EXCEPT
                      !.cues = IF codec.codec_type = "CODEC_TYPE_VIDEO" /\ pkt.key
                               THEN mkv_add_cuepoint(@, pkt, r.mkv.cluster_pos)
                               ELSE @,
                      !.duration =
                          IF Lt64(@, Add64(U64Of(pkt.pts), U64Of(pkt.duration)))
                          THEN Add64(U64Of(pkt.pts), U64Of(pkt.duration))
                          ELSE @]]

\* mkv_write_packet after the cluster test, r being the result of the test
write_packet_block(r, codec, pkt) ==
    IF r.ret < 0 THEN r
    ELSE [ret |-> 0,
          io |-> put_block(r.io, r.mkv, codec, pkt),
          mkv |-> [r.mkv EXCEPT
                      !.cues = IF codec.codec_type = "CODEC_TYPE_VIDEO" /\ pkt.key
                               THEN mkv_add_cuepoint(@, pkt, r.mkv.cluster_pos)
                               ELSE @,
                      !.duration = Add64(U64Of(pkt.pts), U64Of(pkt.duration))]]

\* mutant: the new Cluster is started without the end of the current one
mkv_write_packet_cluster_left_open(io, s, mkv, pkt) ==
    write_packet_block(
        IF cluster_is_full(io, mkv, pkt)
        THEN start_new_cluster(mkv, pkt, io)
        ELSE [ret |-> 0, io |-> io, mkv |-> mkv],
        s.streams[pkt.stream_index + 1], pkt)

mkv_write_packet(io, s, mkv, pkt) ==
    write_packet_block(
        IF cluster_is_full(io, mkv, pkt)
        THEN start_new_cluster(mkv, pkt, end_ebml_master(io, mkv.cluster))
        ELSE [ret |-> 0, io |-> io, mkv |-> mkv],
        s.streams[pkt.stream_index + 1], pkt)

\* mutant: the cursor is not taken back to currentpos after the patches
trailer_patches_no_seek_back(io, s, mkv) ==
    end_ebml_master(
        IF ~BITEXACT(s)
        THEN put_ebml_binary(
                 url_fseek(put_ebml_float(url_fseek(io, mkv.duration_offset),
                                          ID.MATROSKA_ID_DURATION, mkv.duration),
                           mkv.segment_uid),
                 ID.MATROSKA_ID_SEGMENTUID, 16)
        ELSE put_ebml_float(url_fseek(io, mkv.duration_offset),
                            ID.MATROSKA_ID_DURATION, mkv.duration),
        mkv.segment)

\* mkv_write_trailer from the update of the duration on; currentpos is
\* the offset io.pos after the main seek head was written
trailer_patches(io, s, mkv) ==
    end_ebml_master(
        url_fseek(
            IF ~BITEXACT(s)
            THEN put_ebml_binary(
                     url_fseek(put_ebml_float(url_fseek(io, mkv.duration_offset),
                                              ID.MATROSKA_ID_DURATION, mkv.duration),
                               mkv.segment_uid),
                     ID.MATROSKA_ID_SEGMENTUID, 16)
            ELSE put_ebml_float(url_fseek(io, mkv.duration_offset),
                                ID.MATROSKA_ID_DURATION, mkv.duration),
            io.pos),
        mkv.segment)

\* the main seek head is written; h is the result of writing the second
\* seek head
trailer_end(s, mkv, main_seekhead, h) ==
    [ret |-> 0,
     io |-> trailer_patches(mkv_write_seekhead(h.io, main_seekhead).io, s, mkv),
     mkv |-> [mkv EXCEPT !.main_seekhead = main_seekhead]]
\* mutant: the second seek head is added before the Cues
trailer_seekheads_swapped(s, mkv, c, h) ==
    trailer_end(s, mkv,
        mkv_add_seekhead_entry(
            mkv_add_seekhead_entry(mkv.main_seekhead, MATROSKA_ID_SEEKHEAD,
                                   U64Of(h.ret)).sh,
            MATROSKA_ID_CUES, U64Of(c.ret)).sh,
        h)

\* the offsets of the Cues (c.ret) and of the second seek head (h.ret) are
\* added to the main seek head
trailer_seekheads(s, mkv, c, h) ==
    trailer_end(s, mkv,
        mkv_add_seekhead_entry(
            mkv_add_seekhead_entry(mkv.main_seekhead, MATROSKA_ID_CUES,
                                   U64Of(c.ret)).sh,
            MATROSKA_ID_SEEKHEAD, U64Of(h.ret)).sh,
        h)
trailer_cues(s, mkv, c) ==
    trailer_seekheads(s, mkv, c, mkv_write_seekhead(c.io, mkv.cluster_seekhead))

mkv_write_trailer(io, s, mkv) ==
    trailer_cues(s, mkv,
                 mkv_write_cues(end_ebml_master(io, mkv.cluster), mkv.cues))

(***************************************************************************)
(* Spec: a muxer run.  mkv_write_header, then mkv_write_packet calls, then *)
(* mkv_write_trailer.                                                      *)
(*   mk.s     the AVFormatContext: title and streams                       *)
(*   mk.mkv   the MatroskaMuxContext                                       *)
(*   mk.n     the number of mkv_write_packet calls                         *)
(*   mk.last  the last call: the packet, and url_ftell, mkv->cluster,      *)
(*            mkv->cluster_pts and the number of clusters at its entry     *)
(*   mk.calls the calls made so far: the packet, and url_ftell at entry    *)
(*            (at) and at return (end)                                     *)
(***************************************************************************)
MaxPackets == 3

\* the packet right after which the cluster is exactly 5 MiB long when it
\* is the first of the cluster: ClusterTimecode takes 3 bytes and the block
\* header 9
BigSize == 5 * 1024 * 1024 - 12

\* pkt->stream_index, pts, size, duration and PKT_FLAG_KEY
PacketChoices ==
    [stream_index : {0}, pts : {-1, 0, 40, 40000}, size : {3}, duration : {40},
     key : {TRUE}]
    \cup [stream_index : {0}, pts : {40}, size : {BigSize, BigSize + 1},
          duration : {40}, key : {FALSE}]
    \cup [stream_index : {1}, pts : {5000, 5001}, size : {3}, duration : {24},
          key : {TRUE}]
    \cup [stream_index : {2}, pts : {40}, size : {3}, duration : {1000},
          key : {TRUE}]

\* title and CODEC_FLAG_BITEXACT of the first stream
Configs == {[title |-> Str.title, bitexact |-> FALSE],
            [title |-> <<>>, bitexact |-> TRUE]}

NoPacketYet == [stream_index |-> 0, pts |-> 0, size |-> 0, duration |-> 0,
                key |-> FALSE, data |-> 0]
Call(op, pkt) ==
    [op |-> op, pkt |-> pkt, pos |-> pb.pos, cluster |-> mk.mkv.cluster,
     cluster_pts |-> mk.mkv.cluster_pts,
     clusters |-> Len(mk.mkv.cluster_seekhead.entries)]

NewMk(c) ==
    [phase |-> "new",
     s |-> [title |-> c.title,
            streams |-> [Streams EXCEPT ![1].flags_bitexact = c.bitexact]],
     mkv |-> NewMuxContext, n |-> 0, calls |-> <<>>,
     last |-> [op |-> "none", pkt |-> NoPacketYet, pos |-> 0, cluster |-> 0,
               cluster_pts |-> U64Of(0), clusters |-> 0]]

Init ==
    /\ pb = NewIO
    /\ sz = IdleSz
    /\ eb = IdleEb
    /\ sk = IdleSk
    /\ mx = IdleMx
    /\ mk \in {NewMk(c) : c \in Configs}

\* the run after a call returned r: undefined behaviour ends it
Returned(r, op, pkt, phase) ==
    /\ pb' = r.io
    /\ mk' = [mk EXCEPT !.phase = IF r.io.ub THEN "ub" ELSE phase,
                        !.mkv = r.mkv,
                        !.n = IF op = "packet" THEN @ + 1 ELSE @,
                        !.last = Call(op, pkt),
                        !.calls = Append(@, [op |-> op, pkt |-> pkt,
                                             at |-> pb.pos, end |-> r.io.pos])]
    /\ UNCHANGED <<sz, eb, sk, mx>>

WriteHeader ==
    /\ mk.phase = "new"
    /\ Returned(mkv_write_header(pb, mk.s, mk.mkv), "header", NoPacketYet, "open")

WritePacket ==
    /\ mk.phase = "open"
    /\ mk.n < MaxPackets
    /\ \E p \in PacketChoices :
          Returned(mkv_write_packet(pb, mk.s, mk.mkv, p @@ [data |-> mk.n + 1]),
                   "packet", p @@ [data |-> mk.n + 1], "open")

WriteTrailer ==
    /\ mk.phase = "open"
    /\ Returned(mkv_write_trailer(pb, mk.s, mk.mkv), "trailer", NoPacketYet, "closed")

Next ==
    \/ WriteHeader
    \/ WritePacket
    \/ WriteTrailer

Spec == Init /\ [][Next]_vars
(***************************************************************************)
(* Cluster boundaries (Spec)                                               *)
(***************************************************************************)
\* the bytes a writer call leaves on an empty stream
Written(io) == BytesAt(io, 0, io.pos)
\* the ClusterTimecode element of the timecode pts
TimecodeOf(pts) == Written(put_ebml_uint(NewIO, MATROSKA_ID_CLUSTERTIMECODE, U64Of(pts)))
\* the last call was a mkv_write_packet call that registered a new cluster
OpenedCluster ==
    /\ mk.last.op = "packet"
    /\ Len(mk.mkv.cluster_seekhead.entries) > mk.last.clusters

\* C1: a mkv_write_packet call opens a new Cluster if and only if, at its
\* entry, the file has grown by more than 5 MiB since the start of the
\* current cluster or pkt.pts - cluster_pts > 5000; then the size field of
\* the current Cluster is rewritten to its length, the new Cluster starts at
\* the old end of file, its ClusterTimecode and cluster_pts are pkt.pts and
\* the block of the packet follows the ClusterTimecode.
C1_ClusterBoundary ==
    mk.last.op = "packet" =>
        /\ OpenedCluster <=>
              \/ mk.last.pos - mk.last.cluster > 5 * 1024 * 1024
              \/ mk.last.pkt.pts - Low31(mk.last.cluster_pts) > 5000
        /\ OpenedCluster =>
              /\ EbmlDecode(BytesAt(pb, mk.last.cluster - 8, 8))
                     = U64Of(mk.last.pos - mk.last.cluster)
              /\ BytesAt(pb, mk.last.pos, 4)
                     = Written(put_ebml_id(NewIO, MATROSKA_ID_CLUSTER))
              /\ mk.mkv.cluster_pos = mk.last.pos
              /\ mk.mkv.cluster = mk.last.pos + 12
              /\ mk.mkv.cluster_pts = U64Of(mk.last.pkt.pts)
              /\ BytesAt(pb, mk.mkv.cluster, Len(TimecodeOf(mk.last.pkt.pts)))
                     = TimecodeOf(mk.last.pkt.pts)
              /\ pb.pos > mk.mkv.cluster + Len(TimecodeOf(mk.last.pkt.pts))

(***************************************************************************)
(* SpecBer: klv_read_packet on one KLV whose length field is drawn from    *)
(* the short forms and from the long forms of 0 .. MaxBerBytes length      *)
(* bytes.  mx holds the field, and after the call its result, the length   *)
(* decoded and the cursor.                                                 *)
(***************************************************************************)
MaxBerBytes == 9

BerByteValues == {0, 1, 127, 128, 255}
\* n length bytes: one value repeated, 1 2 .. n, 0x80 00 .. 00, FF .. FF FE
BerBodies(n) ==
    {[k \in 1 .. n |-> b] : b \in BerByteValues}
    \cup {[k \in 1 .. n |-> k],
          [k \in 1 .. n |-> IF k = 1 THEN 128 ELSE 0],
          [k \in 1 .. n |-> IF k = n THEN 254 ELSE 255]}
BerInputs ==
    {<<n>> : n \in {0, 1, 127}}
    \cup UNION {{<<128 + n>> \o b : b \in BerBodies(n)} : n \in 0 .. MaxBerBytes}

InitBer ==
    /\ pb = NewIO
    /\ sz = IdleSz
    /\ eb = IdleEb
    /\ sk = IdleSk
    /\ mk = IdleMk
    /\ mx \in {[phase |-> "ber", ber |-> b, done |-> FALSE, ret |-> 0,
                length |-> Zero, pos |-> 0] : b \in BerInputs}

KlvReadPacket ==
    /\ mx.phase = "ber"
    /\ ~mx.done
    /\ LET r == klv_read_packet([key |-> mxf_essence_element_key \o PictureNumber,
                                 ber |-> mx.ber, set |-> NoSet], 0)
       IN  mx' = [mx EXCEPT !.done = TRUE, !.ret = r.ret,
                            !.length = r.klv.bits, !.pos = r.pos]
    /\ UNCHANGED <<pb, sz, eb, sk, mk>>

NextBer == KlvReadPacket

SpecBer == InitBer /\ [][NextBer]_vars

\* the number that the length bytes of a long form hold, big-endian
Encoded(ber) == [i \in Bit |-> NumBit(Tail(ber), i)]

\* C11: klv_decode_ber_length returns the encoded value for every short
\* form and for every long form of up to 8 length bytes, and klv_read_packet
\* fails exactly when the long form declares more than 8 length bytes.
C11_BerRoundTrip ==
    (mx.phase = "ber" /\ mx.done) =>
        /\ mx.ber[1] < 128 => mx.length = U64Of(mx.ber[1])
        /\ (mx.ber[1] >= 128 /\ mx.ber[1] - 128 <= 8) =>
              mx.length = Encoded(mx.ber)
        /\ mx.ret = -1 <=> mx.ber[1] - 128 > 8

(***************************************************************************)
(* The finished file (Spec)                                                *)
(***************************************************************************)
\* the packets of the mkv_write_packet calls made, in order
PacketCalls == SelectSeq(mk.calls, LAMBDA c : c.op = "packet")
\* the 64 bits of the 8 bytes bs, read big-endian
DoubleBits(bs) == [i \in Bit |-> NumBit(bs, i)]
\* the exponent field of a double, less the bias
Exponent(d) ==
    d[52] + 2 * d[53] + 4 * d[54] + 8 * d[55] + 16 * d[56] + 32 * d[57]
        + 64 * d[58] + 128 * d[59] + 256 * d[60] + 512 * d[61] + 1024 * d[62]
        - 1023
\* the double d is a non-negative integer below 2^53
IsIntegral(d) ==
    \/ IsZero(d)
    \/ /\ d[63] = 0
       /\ Exponent(d) \in 0 .. 52
       /\ \A i \in 0 .. (51 - Exponent(d)) : d[i] = 0
\* that integer: the implicit leading one at bit e and the mantissa below it
DoubleToUint(d) ==
    IF IsZero(d) THEN Zero
    ELSE [i \in Bit |->
             IF i = Exponent(d) THEN 1
             ELSE IF i < Exponent(d) THEN d[52 - Exponent(d) + i]
             ELSE 0]

\* C12: after mkv_write_header, packets p1..pn (n >= 1) and
\* mkv_write_trailer, the reserved Duration offset holds a Duration element
\* with an 8-byte float whose value is pn.pts + pn.duration.
C12_DurationWritten ==
    (mk.phase = "closed" /\ mk.n >= 1) =>
        LET p == PacketCalls[Len(PacketCalls)].pkt
            o == mk.mkv.duration_offset
        IN  /\ BytesAt(pb, o, 3) = <<\h44, \h89, \h88>>
            /\ Len(BytesAt(pb, o + 3, 8)) = 8
            /\ IsIntegral(DoubleBits(BytesAt(pb, o + 3, 8)))
            /\ DoubleToUint(DoubleBits(BytesAt(pb, o + 3, 8)))
                   = U64Of(p.pts + p.duration)

\* C12: the file was finished after a packet with an earlier pts than the
\* one before it, and its Duration is that of the last packet
C12_Witness ==
    /\ mk.phase = "closed"
    /\ Len(PacketCalls) >= 2
    /\ PacketCalls[Len(PacketCalls)].pkt.pts = 0
    /\ PacketCalls[Len(PacketCalls) - 1].pkt.pts = 40000
    /\ DoubleToUint(DoubleBits(BytesAt(pb, mk.mkv.duration_offset + 3, 8)))
           = U64Of(40)

\* the offset of the first byte after the size field of the Segment, which
\* follows the EBML header: 4 bytes of identifier and 8 bytes of size
SegmentAt(o) == BytesAt(pb, o, 4) = Written(put_ebml_id(NewIO, ID.MATROSKA_ID_SEGMENT))
SegmentOffset == TotalAt(pb, 0, ID.EBML_ID_HEADER) + 12
\* o is the first byte of a Cluster
ClusterAt(o) == BytesAt(pb, o, 4) = Written(put_ebml_id(NewIO, MATROSKA_ID_CLUSTER))
\* the clusters of the file: the one that mkv_write_header leaves open with
\* its 3-byte ClusterTimecode, and those that the packet calls started
ClusterOffsets ==
    {o \in {mk.calls[1].end - 15} \cup {c.at : c \in Range(PacketCalls)} :
        ClusterAt(o)}
\* the start of the cluster that holds the last byte written by the call c
ClusterOf(c) ==
    CHOOSE o \in ClusterOffsets :
        /\ o < c.end
        /\ \A q \in ClusterOffsets : q < c.end => q <= o
\* the packets of video key frames, in arrival order
IsVideoKey(c) ==
    Streams[c.pkt.stream_index + 1].codec_type = "CODEC_TYPE_VIDEO" /\ c.pkt.key
VideoKeyCalls == SelectSeq(PacketCalls, IsVideoKey)

\* C13: after any sequence of mkv_write_packet calls the Cues entries are,
\* in arrival order, the key frames of the video stream, each recorded as
\* (pkt.pts, stream_index + 1, offset of the Cluster that holds the block of
\* the packet - segment_offset); no other packet adds an entry.
C13_CuesAreVideoKeyframes ==
    mk.phase = "open" =>
        /\ SegmentAt(SegmentOffset - 12)
        /\ Len(mk.mkv.cues.entries) = Len(VideoKeyCalls)
        /\ \A i \in 1 .. Len(VideoKeyCalls) :
              mk.mkv.cues.entries[i] =
                  [pts |-> U64Of(VideoKeyCalls[i].pkt.pts),
                   tracknum |-> VideoKeyCalls[i].pkt.stream_index + 1,
                   cluster_pos |-> ClusterOf(VideoKeyCalls[i]) - SegmentOffset]

\* C13: two video key frames in different clusters with an audio key frame
\* between them
C13_Witness ==
    /\ mk.phase = "open"
    /\ Len(PacketCalls) = 3
    /\ PacketCalls[2].pkt.stream_index = 1
    /\ PacketCalls[2].pkt.key
    /\ Len(mk.mkv.cues.entries) = 2
    /\ mk.mkv.cues.entries[1].cluster_pos < mk.mkv.cues.entries[2].cluster_pos
    /\ mk.mkv.cues.entries[2].cluster_pos = PacketCalls[3].at - SegmentOffset

(***************************************************************************)
(* SpecCues: a cue list filled by mkv_add_cuepoint and written once by     *)
(* mkv_write_cues.  mk = [phase, cues, written, ret].                      *)
(***************************************************************************)
MaxCues == 3

CuePts == {0, 300}
CueStreams == {0, 1}
\* cluster offsets in the file, the Segment payload starting at offset 48;
\* 1 and 3 bytes long as a CueClusterPosition
CueClusters == {148, 70048}

InitCues ==
    /\ pb = NewIO
    /\ sz = IdleSz
    /\ eb = IdleEb
    /\ sk = IdleSk
    /\ mx = IdleMx
    /\ mk = [phase |-> "cues", cues |-> mkv_start_cues(48),
             written |-> FALSE, ret |-> -1]

CuAdd ==
    /\ mk.phase = "cues"
    /\ ~mk.written
    /\ Len(mk.cues.entries) < MaxCues
    /\ \E pts \in CuePts, st \in CueStreams, c \in CueClusters :
          mk' = [mk EXCEPT !.cues =
                    mkv_add_cuepoint(@, [pts |-> pts, stream_index |-> st], c)]
    /\ UNCHANGED <<pb, sz, eb, sk, mx>>

CuWrite ==
    /\ mk.phase = "cues"
    /\ ~mk.written
    /\ pb' = mkv_write_cues(pb, mk.cues).io
    /\ mk' = [mk EXCEPT !.written = TRUE, !.ret = mkv_write_cues(pb, mk.cues).ret]
    /\ UNCHANGED <<sz, eb, sk, mx>>

NextCues == CuAdd \/ CuWrite

SpecCues == InitCues /\ [][NextCues]_vars

\* ---- reading the Cues element back ----
\* the big-endian number in the bytes bs, at most 8
NumberOf(bs) ==
    FromBytes([k \in 1 .. 8 |-> IF k <= Len(bs) THEN bs[Len(bs) + 1 - k] ELSE 0])
\* the payload of the element id at o
PayloadAt(io, o, id) ==
    LET h == ebml_id_size(id) + Len(SizeFieldAt(io, o + ebml_id_size(id)))
    IN  [at |-> o + h, len |-> TotalAt(io, o, id) - h]
\* the unsigned integer element id at o: [ok, v, next]
ReadUint(io, o, id) ==
    LET p == PayloadAt(io, o, id)
    IN  IF TotalAt(io, o, id) < 0 \/ p.len < 1 \/ p.len > 8
        THEN [ok |-> FALSE, v |-> Zero, next |-> o]
        ELSE [ok |-> TRUE, v |-> NumberOf(BytesAt(io, p.at, p.len)),
              next |-> p.at + p.len]
\* the CueTrackPositions at o: CueTrack, CueClusterPosition and no more
ReadTrackPosition(io, o) ==
    LET p == PayloadAt(io, o, ID.MATROSKA_ID_CUETRACKPOSITION)
        t == ReadUint(io, p.at, ID.MATROSKA_ID_CUETRACK)
        c == ReadUint(io, t.next, ID.MATROSKA_ID_CUECLUSTERPOSITION)
    IN  IF TotalAt(io, o, ID.MATROSKA_ID_CUETRACKPOSITION) < 0
        THEN [ok |-> FALSE, v |-> <<>>, next |-> o]
        ELSE [ok |-> t.ok /\ c.ok /\ c.next = p.at + p.len,
              v |-> [track |-> t.v, pos |-> c.v], next |-> p.at + p.len]
\* the CueTrackPositions from o to end: [ok, v]
RECURSIVE ReadTrackPositions(_, _, _)
ReadTrackPositions(io, o, end) ==
    IF o = end THEN [ok |-> TRUE, v |-> <<>>]
    ELSE IF o > end THEN [ok |-> FALSE, v |-> <<>>]
    ELSE LET e == ReadTrackPosition(io, o)
             r == ReadTrackPositions(io, e.next, end)
         IN  IF ~e.ok THEN [ok |-> FALSE, v |-> <<>>]
             ELSE [ok |-> r.ok, v |-> <<e.v>> \o r.v]
\* the CuePoint at o: CueTime, then CueTrackPositions to its end
ReadCuePoint(io, o) ==
    LET p == PayloadAt(io, o, ID.MATROSKA_ID_POINTENTRY)
        t == ReadUint(io, p.at, ID.MATROSKA_ID_CUETIME)
        r == ReadTrackPositions(io, t.next, p.at + p.len)
    IN  IF TotalAt(io, o, ID.MATROSKA_ID_POINTENTRY) < 0 \/ ~t.ok
        THEN [ok |-> FALSE, v |-> <<>>, next |-> o]
        ELSE [ok |-> r.ok, v |-> [time |-> t.v, positions |-> r.v],
              next |-> p.at + p.len]
RECURSIVE ReadCuePoints(_, _, _)
ReadCuePoints(io, o, end) ==
    IF o = end THEN [ok |-> TRUE, v |-> <<>>]
    ELSE IF o > end THEN [ok |-> FALSE, v |-> <<>>]
    ELSE LET e == ReadCuePoint(io, o)
             r == ReadCuePoints(io, e.next, end)
         IN  IF ~e.ok THEN [ok |-> FALSE, v |-> <<>>]
             ELSE [ok |-> r.ok, v |-> <<e.v>> \o r.v]
\* the Cues element at o: [ok, v], v the list of its CuePoints
ReadCues(io, o) ==
    LET p == PayloadAt(io, o, MATROSKA_ID_CUES)
    IN  IF TotalAt(io, o, MATROSKA_ID_CUES) < 0 THEN [ok |-> FALSE, v |-> <<>>]
        ELSE ReadCuePoints(io, p.at, p.at + p.len)

\* ---- the maximal runs of equal pts ----
\* the length of the longest prefix of es whose entries have the pts of es[1]
LeadLen(es) ==
    CHOOSE n \in 1 .. Len(es) :
        /\ \A k \in 1 .. n : es[k].pts = es[1].pts
        /\ n = Len(es) \/ es[n + 1].pts # es[1].pts
RECURSIVE Runs(_)
Runs(es) ==
    IF es = <<>> THEN <<>>
    ELSE <<SubSeq(es, 1, LeadLen(es))>> \o Runs(SubSeq(es, LeadLen(es) + 1, Len(es)))

\* C14: mkv_write_cues emits one CuePoint per maximal contiguous run of
\* entries with equal pts, its CueTime that pts, with one CueTrackPositions
\* per entry of the run in input order (so every entry is in exactly one
\* CuePoint), and returns the offset of the Cues element.
C14_CuePointPerRun ==
    (mk.phase = "cues" /\ mk.written) =>
        LET got  == ReadCues(pb, mk.ret)
            runs == Runs(mk.cues.entries)
        IN  /\ got.ok
            /\ TotalAt(pb, mk.ret, MATROSKA_ID_CUES) = pb.pos - mk.ret
            /\ Len(got.v) = Len(runs)
            /\ \A r \in 1 .. Len(runs) :
                  /\ got.v[r].time = runs[r][1].pts
                  /\ Len(got.v[r].positions) = Len(runs[r])
                  /\ \A k \in 1 .. Len(runs[r]) :
                        /\ got.v[r].positions[k].track = U64Of(runs[r][k].tracknum)
                        /\ got.v[r].positions[k].pos = U64Of(runs[r][k].cluster_pos)

\* C14: a list pts t, t, u of two tracks was written as two CuePoints, the
\* first with two CueTrackPositions
C14_Witness ==
    /\ mk.phase = "cues"
    /\ mk.written
    /\ Len(mk.cues.entries) = 3
    /\ mk.cues.entries[1].pts = mk.cues.entries[2].pts
    /\ mk.cues.entries[1].tracknum # mk.cues.entries[2].tracknum
    /\ mk.cues.entries[3].pts # mk.cues.entries[2].pts
    /\ Len(ReadCues(pb, mk.ret).v) = 2
    /\ Len(ReadCues(pb, mk.ret).v[1].positions) = 2

(***************************************************************************)
(* The capacity of a SeekHead (SpecSeek).  sk.arg holds the arguments of   *)
(* the last mkv_add_seekhead_entry call.                                   *)
(***************************************************************************)
\* the step is a call of mkv_add_seekhead_entry
IsSkAdd == sk.stage = "open" /\ sk'.stage = "open" /\ pb' = pb

\* C15: with max_entries = k > 0, mkv_add_seekhead_entry returns 0 and
\* appends (element_id, file_pos - segment_offset) while num_entries < k; at
\* num_entries = k it returns -1 and leaves the list as it was, so
\* num_entries <= k after every call; with max_entries = 0 no call is
\* rejected.
C15_SeekHeadCapacity ==
    [][IsSkAdd =>
        /\ IF sk.sh.max_entries = 0 \/ Len(sk.sh.entries) < sk.sh.max_entries
           THEN /\ sk'.ret = 0
                /\ Len(sk'.sh.entries) = Len(sk.sh.entries) + 1
                /\ SubSeq(sk'.sh.entries, 1, Len(sk.sh.entries)) = sk.sh.entries
                /\ sk'.sh.entries[Len(sk'.sh.entries)].elementid = sk'.arg.id
                /\ Add64(sk'.sh.entries[Len(sk'.sh.entries)].segmentpos,
                         U64Of(sk.sh.segment_offset)) = sk'.arg.filepos
           ELSE /\ sk'.ret = -1
                /\ sk'.sh = sk.sh
        /\ sk'.sh.max_entries = sk.sh.max_entries
        /\ sk'.sh.max_entries > 0 => Len(sk'.sh.entries) <= sk'.sh.max_entries
    ]_vars

\* C15: a call was rejected by a SeekHead that holds all of the entries
\* it was started with
C15_Witness ==
    /\ sk.stage = "open"
    /\ sk.ret = -1
    /\ sk.sh.max_entries = MaxSeekEntries
    /\ Len(sk.sh.entries) = sk.sh.max_entries
    /\ sk.sh.segment_offset > 0

(***************************************************************************)
(* SpecLink: mxf_parse_structural_metadata on the header metadata of a     *)
(* file with the packages of Pool, read parents first, in which the        *)
(* Sequences of the two Material tracks list one or two components.        *)
(*   mx.m1, mx.m2  the component references of the two Sequences           *)
(*   mx.ss         whether the file holds the Sequence of source track 1   *)
(*   mx.mxf        MXFContext after the loop of mxf_read_header            *)
(*   mx.res        the result of mxf_parse_structural_metadata             *)
(***************************************************************************)
MaxComponents == 2

\* a component the file holds no set for (a filler, a timecode component)
AbsentComponent == 17
LinkClips ==
    {SourceClipKlv("MC1", 15, 250, 200, 1),
     [SourceClipKlv("MC2", 16, -1, 200, 2) EXCEPT !.set.start_position = 10],
     SourceClipKlv("MC3", 19, 100, 200, 9),
     SourceClipKlv("MC4", 20, 100, 999, 2)}
ClipOf(uid) == CHOOSE k \in LinkClips : k.set.uid = uid

\* the lists of 1 .. MaxComponents different references out of S
RefLists(S) ==
    {r \in UNION {[1 .. n -> S] : n \in 1 .. MaxComponents} :
        \A a, b \in DOMAIN r : a # b => r[a] # r[b]}

RECURSIVE ClipsOf(_, _)
ClipsOf(refs, n) ==
    IF n > Len(refs) THEN <<>>
    ELSE (IF refs[n] = AbsentComponent THEN <<>> ELSE <<ClipOf(refs[n])>>)
             \o ClipsOf(refs, n + 1)

LinkFile(m1, m2, ss) ==
    <<Named("Preface"), Named("ContentStorage"), Named("MP"), Named("SP"),
      Named("MT1"), [Named("MT2") EXCEPT !.set.edit_rate = <<30000, 1001>>],
      Named("ST1"), Named("ST2"),
      SequenceKlv("MS1", 13, picture_essence_track_ul, m1),
      SequenceKlv("MS2", 14, sound_essence_track_ul, m2)>>
    \o (IF ss THEN <<Named("SS1")>> ELSE <<>>)
    \o <<Named("SS2"), Named("MD"), Named("D1"), Named("D2")>>
    \o ClipsOf(m1, 1) \o ClipsOf(m2, 1)

\* the handler that the loop of mxf_read_header calls for the key
read_set(mxf, klv) ==
    IF IS_KLV_KEY(klv.key, mxf_metadata_track_key)
    THEN mxf_read_metadata_track(mxf, klv)
    ELSE IF IS_KLV_KEY(klv.key, mxf_metadata_static_track_key)
    THEN mxf_read_metadata_track(mxf, klv)
    ELSE IF IS_KLV_KEY(klv.key, mxf_metadata_source_package_key)
    THEN mxf_read_metadata_source_package(mxf, klv)
    ELSE IF IS_KLV_KEY(klv.key, mxf_metadata_sequence_key)
    THEN mxf_read_metadata_sequence(mxf, klv)
    ELSE IF IS_KLV_KEY(klv.key, mxf_metadata_material_package_key)
    THEN mxf_read_metadata_material_package(mxf, klv)
    ELSE IF IS_KLV_KEY(klv.key, mxf_metadata_source_clip_key)
    THEN mxf_read_metadata_source_clip(mxf, klv)
    ELSE IF IS_KLV_KEY(klv.key, mxf_metadata_multiple_descriptor_key)
    THEN mxf_read_metadata_multiple_descriptor(mxf, klv)
    ELSE IF \/ IS_KLV_KEY(klv.key, mxf_metadata_wave_descriptor_key)
            \/ IS_KLV_KEY(klv.key, mxf_metadata_mpegvideo_descriptor_key)
            \/ IS_KLV_KEY(klv.key, mxf_metadata_cdci_descriptor_key)
            \/ IS_KLV_KEY(klv.key, mxf_metadata_generic_sound_descriptor_key)
    THEN mxf_read_metadata_generic_descriptor(mxf, klv)
    ELSE IF IS_KLV_KEY(klv.key, mxf_metadata_preface_key)
    THEN mxf_read_metadata_preface(mxf, klv)
    ELSE IF IS_KLV_KEY(klv.key, mxf_metadata_content_storage_key)
    THEN mxf_read_metadata_content_storage(mxf, klv)
    ELSE [ret |-> 0, mxf |-> mxf]

\* the loop of mxf_read_header from the n-th KLV of the file to its end
RECURSIVE read_header_sets(_, _, _, _)
read_header_sets(mxf, file, n, pos) ==
    IF n > Len(file) THEN [ret |-> 0, mxf |-> mxf]
    ELSE LET r == klv_read_packet(file[n], pos)
             h == read_set(mxf, r.klv)
         IN  IF r.ret < 0 THEN [ret |-> -1, mxf |-> mxf]
             ELSE IF h.ret < 0 THEN h
             ELSE read_header_sets(h.mxf, file, n + 1, r.pos + r.klv.length)

InitLink ==
    /\ pb = NewIO
    /\ sz = IdleSz
    /\ eb = IdleEb
    /\ sk = IdleSk
    /\ mk = IdleMk
    /\ \E m1 \in RefLists({15, AbsentComponent, 19}),
          m2 \in RefLists({16, AbsentComponent, 20}),
          ss \in BOOLEAN :
          /\ read_header_sets(NewMXFContext, LinkFile(m1, m2, ss), 1, 0).ret = 0
          /\ mx = [phase |-> "link", m1 |-> m1, m2 |-> m2, ss |-> ss,
                   mxf |-> read_header_sets(NewMXFContext, LinkFile(m1, m2, ss), 1, 0).mxf,
                   done |-> FALSE,
                   res |-> [ret |-> 0, streams |-> <<>>, ub |-> FALSE]]

LinkParse ==
    /\ mx.phase = "link"
    /\ ~mx.done
    /\ LET p == mxf_parse_structural_metadata(mx.mxf)
       IN  mx' = [mx EXCEPT !.done = TRUE,
                            !.res = [ret |-> p.ret, streams |-> p.streams,
                                     ub |-> p.ub]]
    /\ UNCHANGED <<pb, sz, eb, sk, mk>>

NextLink == LinkParse

SpecLink == InitLink /\ [][NextLink]_vars

\* ---- what the file says of the chains ----
\* the first SourceClip that the references list, if any
FirstClip(refs) ==
    LET at == {n \in DOMAIN refs : refs[n] # AbsentComponent}
    IN  IF at = {} THEN {} ELSE {ClipOf(refs[MinOf(at)]).set}
\* the chain of a material track resolves: its Sequence lists a SourceClip,
\* the SourceClip names the package UID of a source package and the id of
\* one of its tracks
SourceTrackIds == {Named(n).set.track_id : n \in {"ST1", "ST2"}}
Resolves(refs) ==
    \E c \in FirstClip(refs) :
        /\ c.source_package_uid = Named("SP").set.package_uid
        /\ c.source_track_id \in SourceTrackIds
\* the stream of the material track i with the references refs
ChainStream(i, refs) ==
    LET c == CHOOSE c \in FirstClip(refs) : TRUE
    IN  [id |-> c.source_track_id,
         start_time |-> c.start_position,
         duration |-> IF c.duration = -1 THEN AV_NOPTS_VALUE ELSE c.duration,
         time_base |-> [num |-> mx.mxf.packages[1].tracks[i].edit_rate.num,
                        den |-> mx.mxf.packages[1].tracks[i].edit_rate.den]]
ChainStreams ==
    (IF Resolves(mx.m1) THEN <<ChainStream(1, mx.m1)>> ELSE <<>>)
    \o (IF Resolves(mx.m2) THEN <<ChainStream(2, mx.m2)>> ELSE <<>>)
ChainView(st) ==
    [id |-> st.id, start_time |-> st.start_time, duration |-> st.duration,
     time_base |-> st.time_base]

\* C16: mxf_parse_structural_metadata emits one stream for each Material
\* track whose chain resolves, in the order of the Material tracks, with
\* id = the track_id of the source track, start_time = the start_position
\* and duration = the duration of the SourceClip (unknown for -1), and the
\* time base edit_rate.num / edit_rate.den of the Material track.
C16_StreamPerResolvedTrack ==
    (mx.phase = "link" /\ mx.done /\ mx.ss) =>
        /\ ~mx.res.ub
        /\ mx.res.ret = 0
        /\ [n \in DOMAIN mx.res.streams |-> ChainView(mx.res.streams[n])]
               = ChainStreams

\* the last component that the loop over the components of a material
\* track visits is one the parser has an object for
LastComponentRead == mx.m1[Len(mx.m1)] # AbsentComponent /\ mx.m2[Len(mx.m2)] # AbsentComponent
\* the Sequence set of the source track with the given id, if the file has it
SourceSequence(id) ==
    IF id = Named("ST1").set.track_id
    THEN (IF mx.ss THEN {Named("SS1").set} ELSE {})
    ELSE {Named("SS2").set}

\* C17: every stream that mxf_parse_structural_metadata emits has its codec
\* type decided: video when the data-definition UL of the Sequence of its
\* source track is the picture essence track UL, audio when it is the sound
\* essence track UL, data otherwise, with or without a descriptor.
C17_CodecTypeDecided ==
    (mx.phase = "link" /\ mx.done /\ LastComponentRead) =>
        /\ ~mx.res.ub
        /\ \A n \in DOMAIN mx.res.streams :
              LET type == mx.res.streams[n].codec.codec_type
              IN  /\ type \in {"CODEC_TYPE_VIDEO", "CODEC_TYPE_AUDIO", "CODEC_TYPE_DATA"}
                  /\ \A q \in SourceSequence(mx.res.streams[n].id) :
                        /\ q.data_definition_ul = picture_essence_track_ul
                              => type = "CODEC_TYPE_VIDEO"
                        /\ q.data_definition_ul = sound_essence_track_ul
                              => type = "CODEC_TYPE_AUDIO"
                        /\ q.data_definition_ul \notin
                                  {picture_essence_track_ul, sound_essence_track_ul}
                              => type = "CODEC_TYPE_DATA"

(***************************************************************************)
(* The SeekHeads of the finished file (Spec)                               *)
(***************************************************************************)
\* the SeekEntry at o: SeekID, then SeekPosition; [ok, v, next] with v the
\* bytes of the identifier and the position as a number
ReadSeekEntry(io, o) ==
    LET p == PayloadAt(io, o, MATROSKA_ID_SEEKENTRY)
        d == PayloadAt(io, p.at, MATROSKA_ID_SEEKID)
        q == ReadUint(io, d.at + d.len, MATROSKA_ID_SEEKPOSITION)
    IN  IF \/ TotalAt(io, o, MATROSKA_ID_SEEKENTRY) < 0
           \/ TotalAt(io, p.at, MATROSKA_ID_SEEKID) < 0
        THEN [ok |-> FALSE, v |-> <<>>, next |-> o]
        ELSE [ok |-> q.ok /\ q.next = p.at + p.len /\ IsZero(Shr(q.v, 31)),
              v |-> [id |-> BytesAt(io, d.at, d.len), pos |-> Low31(q.v)],
              next |-> p.at + p.len]
RECURSIVE ReadSeekEntries(_, _, _)
ReadSeekEntries(io, o, end) ==
    IF o = end THEN [ok |-> TRUE, v |-> <<>>]
    ELSE IF o > end THEN [ok |-> FALSE, v |-> <<>>]
    ELSE LET e == ReadSeekEntry(io, o)
             r == ReadSeekEntries(io, e.next, end)
         IN  IF ~e.ok THEN [ok |-> FALSE, v |-> <<>>]
             ELSE [ok |-> r.ok, v |-> <<e.v>> \o r.v]
\* the SeekHead at o: [ok, v], v the list of its entries
ReadSeekHead(io, o) ==
    LET p == PayloadAt(io, o, MATROSKA_ID_SEEKHEAD)
    IN  IF TotalAt(io, o, MATROSKA_ID_SEEKHEAD) < 0 THEN [ok |-> FALSE, v |-> <<>>]
        ELSE ReadSeekEntries(io, p.at, p.at + p.len)

\* the entry e points at the first byte of an element with its identifier
PointsAtElement(e) ==
    /\ Len(e.id) >= 1
    /\ BytesAt(pb, SegmentOffset + e.pos, Len(e.id)) = e.id
SeekHeadIdBytes == Written(put_ebml_id(NewIO, MATROSKA_ID_SEEKHEAD))
\* the SeekHeads that the entries of the SeekHead h point at
SecondSeekHeads(h) ==
    {SegmentOffset + e.pos : e \in {x \in Range(h.v) : x.id = SeekHeadIdBytes}}

\* C18: in the finished file the main SeekHead, at the start of the Segment
\* payload, and the cluster SeekHead it points at are well formed, and
\* every entry of either has SeekPosition = (offset of the first identifier
\* byte of an element with the identifier SeekID) - segment_offset.
C18_SeekPositions ==
    mk.phase = "closed" =>
        LET main == ReadSeekHead(pb, SegmentOffset)
        IN  /\ SegmentAt(SegmentOffset - 12)
            /\ main.ok
            /\ \A e \in Range(main.v) : PointsAtElement(e)
            /\ SecondSeekHeads(main) # {}
            /\ \A o \in SecondSeekHeads(main) :
                  LET second == ReadSeekHead(pb, o)
                  IN  /\ second.ok
                      /\ {SegmentOffset + e.pos : e \in Range(second.v)}
                             = ClusterOffsets
                      /\ \A e \in Range(second.v) : PointsAtElement(e)

\* C18: a finished file with three clusters, whose main SeekHead has the
\* four entries Info, Tracks, Cues and SeekHead
C18_Witness ==
    /\ mk.phase = "closed"
    /\ Len(ReadSeekHead(pb, SegmentOffset).v) = 4
    /\ \E o \in SecondSeekHeads(ReadSeekHead(pb, SegmentOffset)) :
          Len(ReadSeekHead(pb, o).v) = 3

(***************************************************************************)
(* Reference arrays and pointer arrays (SpecMxf)                           *)
(***************************************************************************)
\* the pointer arrays ptrs is as long as the reference array refs, and each
\* of its slots is NULL or holds the object with the InstanceUID referred to
Parallel(refs, ptrs) ==
    /\ Len(refs) = Len(ptrs)
    /\ \A n \in Idx(ptrs) : IsNull(ptrs[n]) \/ ptrs[n].uid = refs[n]
ParallelInTrack(t) ==
    IsNull(t) \/ IsNull(t.sequence)
        \/ Parallel(t.sequence.structural_components_refs,
                    t.sequence.structural_components)
ParallelInPackage(p) ==
    IsNull(p)
        \/ /\ Parallel(p.tracks_refs, p.tracks)
           /\ \A j \in Idx(p.tracks) : ParallelInTrack(p.tracks[j])
           /\ IsNull(p.descriptor)
                 \/ Parallel(p.descriptor.sub_descriptors_refs,
                             p.descriptor.sub_descriptors)

\* C19: in every state reached while the header metadata is parsed, the
\* reference array and the pointer array of the packages, of the tracks of
\* a package, of the structural components of a sequence and of the
\* sub-descriptors of a descriptor have the same length, and slot i of the
\* pointer array is NULL or holds the object whose InstanceUID is refs[i].
C19_ParallelArrays ==
    mx.phase \in {"header", "failed", "opened", "ub"} =>
        /\ Parallel(mx.mxf.packages_refs, mx.mxf.packages)
        /\ Parallel(mx.mxf.essence_container_data_sets_refs,
                    mx.mxf.essence_container_data_sets)
        /\ \A i \in Idx(mx.mxf.packages) : ParallelInPackage(mx.mxf.packages[i])

\* C19: the header loop is under way, and of each kind of array one has a
\* slot filled next to a slot that is still NULL
C19_Witness ==
    /\ mx.phase = "header"
    /\ Len(mx.mxf.packages) = 2
    /\ ~IsNull(mx.mxf.packages[1])
    /\ ~IsNull(mx.mxf.packages[2])
    /\ ~IsNull(mx.mxf.packages[1].tracks[2])
    /\ IsNull(mx.mxf.packages[1].tracks[1])
    /\ ~IsNull(mx.mxf.packages[1].tracks[2].sequence)
    /\ ~IsNull(mx.mxf.packages[1].tracks[2].sequence.structural_components[1])
    /\ ~IsNull(mx.mxf.packages[2].descriptor)
    /\ ~IsNull(mx.mxf.packages[2].descriptor.sub_descriptors[2])
    /\ IsNull(mx.mxf.packages[2].descriptor.sub_descriptors[1])

(***************************************************************************)
(* SpecUmid: the local sets of a Source Package and of a SourceClip, byte  *)
(* for byte.  The set is a list of items, each a 2-byte tag, a 2-byte      *)
(* length and a body; the handler reads it into the object and attaches    *)
(* the object to the slot that refers to its InstanceUID.                  *)
(*   mx.kind   "clip" or "package"                                         *)
(*   mx.items  the items of the set, [tag, body]                           *)
(*   mx.mxf    MXFContext: before the call the Content Storage, the        *)
(*             Material Package, its first track and the Sequence of that  *)
(*             track have been read                                        *)
(***************************************************************************)
MaxItems == 3

\* the big-endian number in the bytes bs
RECURSIVE BeNumber(_)
BeNumber(bs) ==
    IF bs = <<>> THEN 0
    ELSE 256 * BeNumber(SubSeq(bs, 1, Len(bs) - 1)) + bs[Len(bs)]
\* n bytes of buf from offset p on
get_buffer(buf, p, n) == SubSeq(buf, p + 1, p + n)
get_be16(buf, p) == BeNumber(get_buffer(buf, p, 2))
get_be32(buf, p) == BeNumber(get_buffer(buf, p, 4))
\* the values read are -1 or below 2^31
get_be64(buf, p) ==
    IF NumberOf(get_buffer(buf, p, 8)) = MinusOne THEN -1
    ELSE Low31(NumberOf(get_buffer(buf, p, 8)))
\* an InstanceUID as the number that the model keeps for it
get_uid(buf, p) == BeNumber(get_buffer(buf, p, 16))
\* count UIDs from offset p on
get_uids(buf, p, count) == [n \in 1 .. count |-> get_uid(buf, p + 16 * (n - 1))]

\* mutant: the first 16 bytes of the UMID are kept
get_umid_first_half(buf, p) == get_buffer(buf, p, 16)

\* url_fskip(pb, 16); get_buffer(pb, uid, 16)
get_umid(buf, p) == get_buffer(buf, p + 16, 16)

\* the loop over the items of mxf_read_metadata_source_clip: the set read
RECURSIVE source_clip_items(_, _, _, _, _)
source_clip_items(buf, p, bytes_read, length, set) ==
    IF bytes_read >= length THEN set
    ELSE LET tag  == get_be16(buf, p)
             size == get_be16(buf, p + 2)
             q    == p + 4
         IN  IF tag = \h3C0A
             THEN source_clip_items(buf, q + 16, bytes_read + size + 4, length,
                      [set EXCEPT !.uid = get_uid(buf, q)])
             ELSE IF tag = \h0202
             THEN source_clip_items(buf, q + 8, bytes_read + size + 4, length,
                      [set EXCEPT !.duration = get_be64(buf, q)])
             ELSE IF tag = \h1201
             THEN source_clip_items(buf, q + 8, bytes_read + size + 4, length,
                      [set EXCEPT !.start_position = get_be64(buf, q)])
             ELSE IF tag = \h1101
             THEN source_clip_items(buf, q + 32, bytes_read + size + 4, length,
                      [set EXCEPT !.source_package_uid = get_umid(buf, q)])
             ELSE IF tag = \h1102
             THEN source_clip_items(buf, q + 4, bytes_read + size + 4, length,
                      [set EXCEPT !.source_track_id = get_be32(buf, q)])
             ELSE source_clip_items(buf, q + size, bytes_read + size + 4, length, set)

\* the loop over the items of mxf_read_metadata_source_package; ret is -1
\* when the loop returns at a track count that is too large
RECURSIVE source_package_items(_, _, _, _, _)
source_package_items(buf, p, bytes_read, length, set) ==
    IF bytes_read >= length THEN [ret |-> 0, set |-> set]
    ELSE LET tag  == get_be16(buf, p)
             size == get_be16(buf, p + 2)
             q    == p + 4
         IN  IF tag = \h3C0A
             THEN source_package_items(buf, q + 16, bytes_read + size + 4, length,
                      [set EXCEPT !.uid = get_uid(buf, q)])
             ELSE IF tag = \h4403
             THEN (IF get_be32(buf, q) >= 268435455 THEN [ret |-> -1, set |-> set]
                   ELSE source_package_items(buf, q + 8 + 16 * get_be32(buf, q),
                            bytes_read + size + 4, length,
                            [set EXCEPT !.tracks_refs =
                                get_uids(buf, q + 8, get_be32(buf, q))]))
             ELSE IF tag = \h4401
             THEN source_package_items(buf, q + 32, bytes_read + size + 4, length,
                      [set EXCEPT !.package_uid = get_umid(buf, q)])
             ELSE IF tag = \h4701
             THEN source_package_items(buf, q + 16, bytes_read + size + 4, length,
                      [set EXCEPT !.descriptor_ref = get_uid(buf, q)])
             ELSE source_package_items(buf, q + size, bytes_read + size + 4, length, set)

\* the objects after av_mallocz, as the sets of their fields
NewClipSet ==
    [uid |-> 0, duration |-> 0, start_position |-> 0,
     source_package_uid |-> ZeroUL, source_track_id |-> 0]
NewPackageSet ==
    [uid |-> 0, package_uid |-> ZeroUL, tracks_refs |-> <<>>, descriptor_ref |-> 0]

\* the two handlers on the KLV whose value is the bytes buf
read_source_clip(mxf, klv, buf) ==
    mxf_read_metadata_source_clip(mxf,
        [klv EXCEPT !.set = source_clip_items(buf, 0, 0, klv.length, NewClipSet)])
read_source_package(mxf, klv, buf) ==
    LET r == source_package_items(buf, 0, 0, klv.length, NewPackageSet)
    IN  IF r.ret < 0 THEN [ret |-> -1, mxf |-> mxf]
        ELSE mxf_read_metadata_source_package(mxf, [klv EXCEPT !.set = r.set])

\* ---- the sets read ----
UidBytes(n) == [k \in 1 .. 16 |-> IF k = 15 THEN n \div 256 ELSE IF k = 16 THEN n % 256 ELSE 0]
Umids ==
    {[k \in 1 .. 32 |-> k],
     [k \in 1 .. 32 |-> 255 - k],
     [k \in 1 .. 32 |-> IF k <= 16 THEN 0 ELSE 170],
     [k \in 1 .. 32 |-> IF k <= 16 THEN 16 + k ELSE 0]}
UmidTag(kind) == IF kind = "clip" THEN \h1101 ELSE \h4401
UidItem(kind) ==
    [tag |-> \h3C0A, body |-> UidBytes(IF kind = "clip" THEN 15 ELSE 20)]
OtherItems(kind) ==
    {[tag |-> \h0102, body |-> <<1, 2, 3, 4>>],
     IF kind = "clip" THEN [tag |-> \h1102, body |-> <<0, 0, 0, 1>>]
     ELSE [tag |-> \h4701, body |-> UidBytes(30)]}
\* the lists of 2 .. MaxItems different items with the InstanceUID and one UMID
ItemLists(kind) ==
    LET all == {UidItem(kind)} \cup {[tag |-> UmidTag(kind), body |-> u] : u \in Umids}
                   \cup OtherItems(kind)
    IN  {l \in UNION {[1 .. n -> all] : n \in 2 .. MaxItems} :
            /\ \A a, b \in DOMAIN l : a # b => l[a] # l[b]
            /\ \E a \in DOMAIN l : l[a] = UidItem(kind)
            /\ Cardinality({a \in DOMAIN l : l[a].tag = UmidTag(kind)}) = 1}
RECURSIVE ItemBytes(_, _)
ItemBytes(items, n) ==
    IF n > Len(items) THEN <<>>
    ELSE <<items[n].tag \div 256, items[n].tag % 256,
           Len(items[n].body) \div 256, Len(items[n].body) % 256>>
         \o items[n].body \o ItemBytes(items, n + 1)

InitUmid ==
    /\ pb = NewIO
    /\ sz = IdleSz
    /\ eb = IdleEb
    /\ sk = IdleSk
    /\ mk = IdleMk
    /\ \E kind \in {"clip", "package"} :
          \E items \in ItemLists(kind) :
              mx = [phase |-> "umid", kind |-> kind, items |-> items,
                    mxf |-> read_header_sets(NewMXFContext,
                                <<Named("ContentStorage"), Named("MP"),
                                  Named("MT1"), Named("MS1")>>, 1, 0).mxf,
                    done |-> FALSE, ret |-> 0]

ReadUmidSet ==
    /\ mx.phase = "umid"
    /\ ~mx.done
    /\ LET buf == ItemBytes(mx.items, 1)
           k   == [name |-> "Set",
                   key |-> IF mx.kind = "clip" THEN mxf_metadata_source_clip_key
                           ELSE mxf_metadata_source_package_key,
                   ber |-> BerOf(Len(buf)), len |-> Len(buf), set |-> NoSet]
           r   == klv_read_packet(k, 0)
           h   == IF mx.kind = "clip" THEN read_source_clip(mx.mxf, r.klv, buf)
                  ELSE read_source_package(mx.mxf, r.klv, buf)
       IN  mx' = [mx EXCEPT !.done = TRUE, !.ret = h.ret, !.mxf = h.mxf]
    /\ UNCHANGED <<pb, sz, eb, sk, mk>>

NextUmid == ReadUmidSet

SpecUmid == InitUmid /\ [][NextUmid]_vars

\* the 32 bytes of the UMID of the set read
UmidRead == (CHOOSE a \in Range(mx.items) : a.tag = UmidTag(mx.kind)).body
\* the package UID that the object attached by the call holds
Captured ==
    IF mx.kind = "clip"
    THEN mx.mxf.packages[1].tracks[1].sequence.structural_components[1].source_package_uid
    ELSE mx.mxf.packages[2].package_uid

\* C20: for a 32-byte UMID under tag 0x4401 of a Source Package or 0x1101
\* of a SourceClip, the package_uid, respectively source_package_uid, that
\* the object holds is bytes 16..31 of the UMID; bytes 0..15 are dropped.
C20_UmidTail ==
    (mx.phase = "umid" /\ mx.done) =>
        /\ mx.ret = 0
        /\ Captured = [k \in 1 .. 16 |-> UmidRead[16 + k]]

\* C20: a SourceClip whose UMID follows another item was read, the two
\* halves of the UMID being different
C20_Witness ==
    /\ mx.phase = "umid"
    /\ mx.done
    /\ mx.kind = "clip"
    /\ mx.items[1].tag # UmidTag(mx.kind)
    /\ Captured = [k \in 1 .. 16 |-> 16 + k]
    /\ Captured # [k \in 1 .. 16 |-> UmidRead[k]]


(***************************************************************************)
(* SpecSet: one call of a metadata handler of mxf_read_header on a KLV     *)
(* whose value is read byte for byte as (tag, size, body) items.           *)
(*   mx.key    the key of the KLV                                          *)
(*   mx.items  the items of the value, [tag, size, body]                   *)
(*   mx.mxf    MXFContext: the Content Storage, both packages, a Material  *)
(*             track with its Sequence and the Multiple Descriptor have    *)
(*             been read before the call                                   *)
(*   mx.res    what the loop over the items left: ret, the cursor pos, the *)
(*             end far of the last byte read, the batches met              *)
(***************************************************************************)
MaxSetItems == 2

\* (size_t)count for the int count that get_be32 returned as the bytes bs
SizeOfInt(bs) ==
    LET v == NumberOf(bs)
    IN  Bits([i \in Bit |-> IF i >= 32 THEN v[31] ELSE v[i]])
\* UINT_MAX / 2^k
UINT_MAX_shr(k) == Shr(NumberOf(<<255, 255, 255, 255>>), k)

\* mutant: a count of exactly UINT_MAX / sizeof(UID) passes
batch_too_large_above(bs, ptrs) ==
    \/ Lt64(UINT_MAX_shr(4), SizeOfInt(bs))
    \/ ptrs /\ Lt64(UINT_MAX_shr(3), SizeOfInt(bs))

\* count >= UINT_MAX / sizeof(UID) || count >= UINT_MAX / sizeof(*ptrs),
\* the second test only where an array of pointers is allocated as well
batch_too_large(bs, ptrs) ==
    \/ ~Lt64(SizeOfInt(bs), UINT_MAX_shr(4))
    \/ ptrs /\ ~Lt64(SizeOfInt(bs), UINT_MAX_shr(3))

\* the cases of the switch of each handler: the tag, what the case reads
\* and the field it assigns
\*   uid   get_buffer of 16 bytes, an InstanceUID or a reference
\*   ul    get_buffer of 16 bytes, a label
\*   raw4  get_buffer of 4 bytes
\*   be32, be64  get_be32, get_be64
\*   pair  two get_be32, assigned in the order read
\*   ratio two get_be32, assigned to num and den
\*   umid  url_fskip of 16 bytes, get_buffer of 16 bytes
\*   uls   a batch of labels, refs a batch of references with its pointers
Case(tag, kind, field) == [tag |-> tag, kind |-> kind, field |-> field]
local_tags(key) ==
    IF IS_KLV_KEY(key, mxf_metadata_preface_key)
    THEN {Case(\h3B03, "uid", "content_storage_uid"),
          Case(\h3B09, "ul", "operational_pattern_ul"),
          Case(\h3B0A, "uls", "essence_containers_uls")}
    ELSE IF IS_KLV_KEY(key, mxf_metadata_content_storage_key)
    THEN {Case(\h1901, "refs", "packages_refs"),
          Case(\h1902, "refs", "essence_container_data_sets_refs")}
    ELSE IF IS_KLV_KEY(key, mxf_metadata_source_clip_key)
    THEN {Case(\h3C0A, "uid", "uid"), Case(\h0202, "be64", "duration"),
          Case(\h1201, "be64", "start_position"),
          Case(\h1101, "umid", "source_package_uid"),
          Case(\h1102, "be32", "source_track_id")}
    ELSE IF IS_KLV_KEY(key, mxf_metadata_material_package_key)
    THEN {Case(\h3C0A, "uid", "uid"), Case(\h4403, "refs", "tracks_refs")}
    ELSE IF \/ IS_KLV_KEY(key, mxf_metadata_track_key)
            \/ IS_KLV_KEY(key, mxf_metadata_static_track_key)
    THEN {Case(\h3C0A, "uid", "uid"), Case(\h4801, "be32", "track_id"),
          Case(\h4804, "raw4", "track_number"), Case(\h4B01, "pair", "edit_rate"),
          Case(\h4803, "uid", "sequence_ref")}
    ELSE IF IS_KLV_KEY(key, mxf_metadata_sequence_key)
    THEN {Case(\h3C0A, "uid", "uid"), Case(\h0202, "be64", "duration"),
          Case(\h0201, "ul", "data_definition_ul"),
          Case(\h1001, "refs", "structural_components_refs")}
    ELSE IF IS_KLV_KEY(key, mxf_metadata_source_package_key)
    THEN {Case(\h3C0A, "uid", "uid"), Case(\h4403, "refs", "tracks_refs"),
          Case(\h4401, "umid", "package_uid"), Case(\h4701, "uid", "descriptor_ref")}
    ELSE IF IS_KLV_KEY(key, mxf_metadata_multiple_descriptor_key)
    THEN {Case(\h3C0A, "uid", "uid"), Case(\h3F01, "refs", "sub_descriptors_refs")}
    ELSE {Case(\h3C0A, "uid", "uid"), Case(\h3004, "ul", "essence_container_ul"),
          Case(\h3006, "be32", "linked_track_id"),
          Case(\h3201, "ul", "essence_codec_ul"), Case(\h3203, "be32", "width"),
          Case(\h3202, "be32", "height"), Case(\h320E, "ratio", "aspect_ratio"),
          Case(\h3D03, "ratio", "sample_rate"),
          Case(\h3D06, "ul", "essence_codec_ul"), Case(\h3D07, "be32", "channels"),
          Case(\h3D01, "be32", "bits_per_sample")}

\* the object after av_mallocz, as the set of the fields of its cases
NewSet(key) ==
    [f \in {c.field : c \in local_tags(key)} |->
        LET kind == (CHOOSE c \in local_tags(key) : c.field = f).kind
        IN  IF kind \in {"ul", "umid"} THEN ZeroUL
            ELSE IF kind = "raw4" THEN <<0, 0, 0, 0>>
            ELSE IF kind = "pair" THEN <<0, 0>>
            ELSE IF kind = "ratio" THEN [num |-> 0, den |-> 0]
            ELSE IF kind \in {"uls", "refs"} THEN <<>>
            ELSE 0]

\* a batch case at offset q: the count, the test of the count, the
\* allocation, url_fskip(pb, 4) and get_buffer of count * sizeof(UID) bytes,
\* which stops at the end of the file; the entries the file does not hold
\* are not in the array of the model
read_batch(c, buf, q, st) ==
    LET bs == get_buffer(buf, q, 4)
    IN  IF batch_too_large(bs, c.kind = "refs")
        THEN [st EXCEPT !.ret = -1, !.pos = q + 4, !.far = q + 4,
                        !.batches = Append(@, [tag |-> c.tag, count |-> bs,
                                               allocated |-> FALSE, read |-> 0])]
        ELSE LET count == get_be32(buf, q)
                 held  == (Len(buf) - (q + 8)) \div 16
                 n     == IF count <= held THEN count ELSE held
                 end   == IF count <= held THEN q + 8 + 16 * count ELSE Len(buf)
             IN  [st EXCEPT !.pos = end, !.far = end,
                            !.set[c.field] =
                                IF c.kind = "uls"
                                THEN [k \in 1 .. n |-> get_buffer(buf, q + 8 + 16 * (k - 1), 16)]
                                ELSE get_uids(buf, q + 8, n),
                            !.batches = Append(@, [tag |-> c.tag, count |-> bs,
                                                   allocated |-> TRUE, read |-> n])]

\* the case c of the switch at offset q
read_item(c, buf, q, st) ==
    IF c.kind \in {"uls", "refs"} THEN read_batch(c, buf, q, st)
    ELSE LET n == IF c.kind \in {"uid", "ul"} THEN 16
                  ELSE IF c.kind = "umid" THEN 32
                  ELSE IF c.kind \in {"be32", "raw4"} THEN 4
                  ELSE 8
             v == IF c.kind = "uid" THEN get_uid(buf, q)
                  ELSE IF c.kind = "ul" THEN get_buffer(buf, q, 16)
                  ELSE IF c.kind = "umid" THEN get_umid(buf, q)
                  ELSE IF c.kind = "be32" THEN get_be32(buf, q)
                  ELSE IF c.kind = "raw4" THEN get_buffer(buf, q, 4)
                  ELSE IF c.kind = "be64" THEN get_be64(buf, q)
                  ELSE IF c.kind = "pair" THEN <<get_be32(buf, q), get_be32(buf, q + 4)>>
                  ELSE [num |-> get_be32(buf, q), den |-> get_be32(buf, q + 4)]
         IN  [st EXCEPT !.pos = q + n, !.far = q + n, !.set[c.field] = v]

\* while (bytes_read < klv->length) of a handler whose cases are tags
RECURSIVE local_set_items(_, _, _, _, _, _)
local_set_items(tags, buf, p, bytes_read, length, st) ==
    IF bytes_read >= length THEN [st EXCEPT !.pos = p]
    ELSE LET tag  == get_be16(buf, p)
             size == get_be16(buf, p + 2)
             hit  == {c \in tags : c.tag = tag}
         IN  IF hit = {}
             THEN local_set_items(tags, buf, p + 4 + size, bytes_read + size + 4,
                      length, [st EXCEPT !.far = p + 4])
             ELSE LET r == read_item(CHOOSE c \in hit : TRUE, buf, p + 4, st)
                  IN  IF r.ret < 0 THEN r
                      ELSE local_set_items(tags, buf, r.pos, bytes_read + size + 4,
                               length, r)

\* a handler on the KLV whose value starts the bytes buf: the loop over
\* the items, then the object is attached as the handler attaches it
read_local_set(mxf, klv, buf) ==
    LET r == local_set_items(local_tags(klv.key), buf, 0, 0, klv.length,
                 [ret |-> 0, pos |-> 0, far |-> 0, set |-> NewSet(klv.key),
                  batches |-> <<>>])
        h == IF r.ret < 0 THEN [ret |-> -1, mxf |-> mxf]
             ELSE read_set(mxf, [klv EXCEPT !.set = r.set])
    IN  [ret |-> h.ret, mxf |-> h.mxf, items |-> r]

\* ---- the sets read ----
SetKeys ==
    {mxf_metadata_preface_key, mxf_metadata_content_storage_key,
     mxf_metadata_source_clip_key, mxf_metadata_material_package_key,
     mxf_metadata_track_key, mxf_metadata_sequence_key,
     mxf_metadata_source_package_key, mxf_metadata_multiple_descriptor_key,
     mxf_metadata_cdci_descriptor_key}
\* the InstanceUID with which the object of a set finds its slot in mx.mxf
OwnUid(key) ==
    IF key = mxf_metadata_material_package_key THEN 10
    ELSE IF key = mxf_metadata_source_package_key THEN 20
    ELSE IF key = mxf_metadata_track_key THEN 12
    ELSE IF key = mxf_metadata_sequence_key THEN 13
    ELSE IF key = mxf_metadata_source_clip_key THEN 15
    ELSE IF key = mxf_metadata_multiple_descriptor_key THEN 30
    ELSE 31
Item(tag, size, body) == [tag |-> tag, size |-> size, body |-> body]
\* the body of the size that the case c reads
BodyOf(c, key) ==
    IF c.kind = "uid" THEN UidBytes(IF c.tag = \h3C0A THEN OwnUid(key) ELSE 2)
    ELSE IF c.kind = "ul" THEN [k \in 1 .. 16 |-> k]
    ELSE IF c.kind = "umid" THEN [k \in 1 .. 32 |-> k]
    ELSE IF c.kind = "be32" THEN <<0, 0, 0, 1>>
    ELSE IF c.kind = "raw4" THEN <<\h15, 1, 5, 0>>
    ELSE IF c.kind = "be64" THEN <<0, 0, 0, 0, 0, 0, 0, 250>>
    ELSE <<0, 0, 0, 25, 0, 0, 0, 1>>
FixedCases(key) == {c \in local_tags(key) : c.kind \notin {"uls", "refs"}}
BatchCases(key) == local_tags(key) \ FixedCases(key)
\* the counts at and around UINT_MAX / sizeof(UID), 2^31 and 2^32 - 1
EdgeCounts ==
    {<<\h0F, \hFF, \hFF, \hFE>>, <<\h0F, \hFF, \hFF, \hFF>>, <<\h10, 0, 0, 0>>,
     <<\h1F, \hFF, \hFF, \hFF>>, <<\h80, 0, 0, 0>>, <<\hFF, \hFF, \hFF, \hFF>>}
\* items whose size is the number of bytes their case reads, and an item
\* of a tag that no handler knows
SoundItems(key) ==
    {Item(c.tag, Len(BodyOf(c, key)), BodyOf(c, key)) : c \in FixedCases(key)}
        \cup {Item(c.tag, 8, <<0, 0, 0, 0, 0, 0, 0, 16>>) : c \in BatchCases(key)}
        \cup {Item(c.tag, 40, <<0, 0, 0, 2, 0, 0, 0, 16>> \o UidBytes(40) \o UidBytes(41)) :
                    c \in BatchCases(key)}
        \cup {Item(\h0102, 4, <<1, 2, 3, 4>>)}
\* items whose size is 4 less or 4 more than their case reads, and batches
\* of a count that the value does not hold
OddItems(key) ==
    {Item(c.tag, Len(BodyOf(c, key)) - 4,
          SubSeq(BodyOf(c, key), 1, Len(BodyOf(c, key)) - 4)) : c \in FixedCases(key)}
        \cup {Item(c.tag, Len(BodyOf(c, key)) + 4, BodyOf(c, key) \o <<0, 0, 0, 0>>) :
                    c \in FixedCases(key)}
        \cup {Item(c.tag, 8, <<0, 0, 0, 1, 0, 0, 0, 16>>) : c \in BatchCases(key)}
        \cup {Item(c[1].tag, 8, c[2] \o <<0, 0, 0, 16>>) : c \in BatchCases(key) \X EdgeCounts}
\* 1 .. MaxSetItems items, the last one of any kind
SetLists(key) ==
    {l \in UNION {[1 .. n -> SoundItems(key) \cup OddItems(key)] : n \in 1 .. MaxSetItems} :
        \A n \in 1 .. (Len(l) - 1) : l[n] \in SoundItems(key)}
RECURSIVE SetBytes(_, _)
SetBytes(items, n) ==
    IF n > Len(items) THEN <<>>
    ELSE <<items[n].tag \div 256, items[n].tag % 256,
           items[n].size \div 256, items[n].size % 256>>
         \o items[n].body \o SetBytes(items, n + 1)
\* the declared length of the value: the items with their headers
RECURSIVE SetLength(_, _)
SetLength(items, n) ==
    IF n > Len(items) THEN 0 ELSE items[n].size + 4 + SetLength(items, n + 1)
\* the bytes of the file after the value
FileRest == [k \in 1 .. 64 |-> 0]

InitSet ==
    /\ pb = NewIO
    /\ sz = IdleSz
    /\ eb = IdleEb
    /\ sk = IdleSk
    /\ mk = IdleMk
    /\ \E key \in SetKeys :
          \E items \in SetLists(key) :
              mx = [phase |-> "set", key |-> key, items |-> items,
                    mxf |-> read_header_sets(NewMXFContext,
                                <<Named("ContentStorage"), Named("MP"), Named("SP"),
                                  Named("MT1"), Named("MS1"), Named("MD")>>, 1, 0).mxf,
                    done |-> FALSE, ret |-> 0,
                    res |-> [ret |-> 0, pos |-> 0, far |-> 0, batches |-> <<>>]]

ReadLocalSet ==
    /\ mx.phase = "set"
    /\ ~mx.done
    /\ LET len == SetLength(mx.items, 1)
           k   == [name |-> "Set", key |-> mx.key, ber |-> BerOf(len), len |-> len,
                   set |-> NoSet]
           r   == klv_read_packet(k, 0)
           h   == read_local_set(mx.mxf, r.klv, SetBytes(mx.items, 1) \o FileRest)
       IN  mx' = [mx EXCEPT !.done = TRUE, !.ret = h.ret, !.mxf = h.mxf,
                            !.res = [ret |-> h.items.ret, pos |-> h.items.pos,
                                     far |-> h.items.far, batches |-> h.items.batches]]
    /\ UNCHANGED <<pb, sz, eb, sk, mk>>

NextSet == ReadLocalSet

SpecSet == InitSet /\ [][NextSet]_vars

BatchTags == {\h3B0A, \h1901, \h1902, \h1001, \h4403, \h3F01}
\* the batches among the items, and the 32-bit count of a batch
BatchItems == SelectSeq(mx.items, LAMBDA i : i.tag \in BatchTags)
CountOf(i) == SubSeq(i.body, 1, 4)
\* the unsigned count is UINT_MAX / 16 = 0x0FFFFFFF or more
AtLeastLimit(bs) == bs[1] >= 16 \/ bs = <<\h0F, \hFF, \hFF, \hFF>>
\* the offset of the n-th item in the value
RECURSIVE ItemOffset(_, _)
ItemOffset(items, n) ==
    IF n = 1 THEN 0 ELSE ItemOffset(items, n - 1) + items[n - 1].size + 4

\* C21: for each of the batch tags 0x3B0A, 0x1901, 0x1902, 0x1001, 0x4403
\* and 0x3F01, a declared 32-bit count of UINT_MAX / 16 or more makes the
\* handler return -1 right after the count was read, nothing being
\* allocated or read for the batch, and every smaller count passes the test
\* and the batch is allocated and read.
C21_BatchCountLimit ==
    (mx.phase = "set" /\ mx.done) =>
        LET b    == mx.res.batches
            bad  == {n \in DOMAIN BatchItems : AtLeastLimit(CountOf(BatchItems[n]))}
            last == IF bad = {} THEN Len(BatchItems)
                    ELSE CHOOSE n \in bad : \A m \in bad : n <= m
        IN  /\ Len(b) = last
            /\ \A n \in DOMAIN b :
                  /\ b[n].tag = BatchItems[n].tag
                  /\ b[n].count = CountOf(BatchItems[n])
                  /\ b[n].allocated <=> ~AtLeastLimit(b[n].count)
            /\ bad # {} =>
                  /\ mx.ret = -1
                  /\ ~b[last].allocated
                  /\ b[last].read = 0
                  /\ \E n \in DOMAIN mx.items :
                        /\ mx.items[n] = BatchItems[last]
                        /\ mx.res.pos = ItemOffset(mx.items, n) + 8
                        /\ mx.res.far = mx.res.pos

\* C21: a Content Storage set whose first batch of two references was
\* allocated and read and whose second batch, of count 2^31, made the
\* handler fail
C21_Witness ==
    /\ mx.phase = "set"
    /\ mx.done
    /\ mx.ret = -1
    /\ Len(mx.res.batches) = 2
    /\ mx.res.batches[1].allocated
    /\ mx.res.batches[1].read = 2
    /\ mx.res.batches[2].tag = \h1902
    /\ mx.res.batches[2].count = <<\h80, 0, 0, 0>>
    /\ ~mx.res.batches[2].allocated

\* C25: when the loop over the items of a set of declared length L ends,
\* every item, of a known or an unknown tag, having been consumed by its
\* size, the cursor is L bytes past the start of the value and no byte
\* past the end of the value has been read.
C25_CursorAtEnd ==
    (mx.phase = "set" /\ mx.done /\ mx.res.ret = 0) =>
        /\ mx.res.pos = SetLength(mx.items, 1)
        /\ mx.res.far <= SetLength(mx.items, 1)

\* C25 holds for the sets in which the size of every item of a known tag
\* is the number of bytes that the case of the tag reads
C25_SoundSets ==
    (/\ mx.phase = "set" /\ mx.done /\ mx.res.ret = 0
     /\ \A n \in DOMAIN mx.items : mx.items[n] \in SoundItems(mx.key)) =>
        /\ mx.res.pos = SetLength(mx.items, 1)
        /\ mx.res.far <= SetLength(mx.items, 1)

\* C22: after any sequence of mkv_write_packet calls the duration of the
\* muxer is the maximum of pkt.pts + pkt.duration over the packets written
\* so far, also when a packet arrives with a smaller pts than one before.
C22_DurationIsMax ==
    (mk.phase \in {"open", "closed"} /\ Len(PacketCalls) >= 1) =>
        LET ends == {PacketCalls[n].pkt.pts + PacketCalls[n].pkt.duration :
                        n \in DOMAIN PacketCalls}
        IN  mk.mkv.duration = U64Of(CHOOSE e \in ends : \A f \in ends : f <= e)

\* C23: for a Material track whose Sequence lists several structural
\* components, the stream of the track is built from the first component
\* that is a SourceClip read from the file (its source track, duration and
\* start position), whatever components follow it: later SourceClips or
\* slots that no set was read for.
C23_FirstSourceClip ==
    (mx.phase = "link" /\ mx.done /\ mx.ss) =>
        \A i \in {1, 2} :
            LET refs == IF i = 1 THEN mx.m1 ELSE mx.m2
            IN  (Len(refs) >= 2 /\ Resolves(refs)) =>
                    /\ ~mx.res.ub
                    /\ \E n \in DOMAIN mx.res.streams :
                          LET st == mx.res.streams[n]
                              c  == ChainStream(i, refs)
                          IN  /\ st.id = c.id
                              /\ st.duration = c.duration
                              /\ st.start_time = c.start_time

\* the SourceClips that the Sequence of the Material track i lists
TrackClips(i) ==
    LET refs == IF i = 1 THEN mx.m1 ELSE mx.m2
    IN  {ClipOf(refs[n]).set : n \in {n \in DOMAIN refs : refs[n] # AbsentComponent}}
\* the streams of the Material track i: the two tracks differ in edit rate
TrackStreams(i) ==
    {n \in DOMAIN mx.res.streams :
        mx.res.streams[n].time_base =
            [num |-> mx.mxf.packages[1].tracks[i].edit_rate.num,
             den |-> mx.mxf.packages[1].tracks[i].edit_rate.den]}

\* C24: the source track of every emitted stream is a track of the package
\* whose package_uid a SourceClip of the Material track names, with the
\* track_id that this SourceClip names; a Material track none of whose
\* SourceClips names the UID of a package gets no stream, whatever was
\* resolved for the tracks before it.
C24_SourceTrackOfNamedPackage ==
    (mx.phase = "link" /\ mx.done /\ mx.ss) =>
        \A i \in {1, 2} :
            \A n \in TrackStreams(i) :
                \E c \in TrackClips(i) :
                    /\ c.source_package_uid = Named("SP").set.package_uid
                    /\ c.source_track_id = mx.res.streams[n].id

\* C26: after mkv_write_header and any sequence of mkv_write_packet calls
\* the cluster SeekHead holds exactly one entry for each Cluster of the
\* file, the first one that of the Cluster opened by the header, in the
\* order in which the Clusters were opened, with strictly increasing
\* positions, each the offset of its Cluster less segment_offset; no
\* Cluster is in the file without its entry.
C26_ClusterSeekHead ==
    mk.phase = "open" =>
        LET e == mk.mkv.cluster_seekhead.entries
        IN  /\ Len(e) = Cardinality(ClusterOffsets)
            /\ Len(e) >= 1
            /\ SegmentOffset + Low31(e[1].segmentpos) = mk.calls[1].end - 15
            /\ \A n \in DOMAIN e :
                  /\ e[n].elementid = MATROSKA_ID_CLUSTER
                  /\ e[n].segmentpos = U64Of(Low31(e[n].segmentpos))
                  /\ SegmentOffset + Low31(e[n].segmentpos) \in ClusterOffsets
                  /\ \A m \in DOMAIN e :
                        n < m => Low31(e[n].segmentpos) < Low31(e[m].segmentpos)
            /\ mk.mkv.segment_offset = SegmentOffset

\* C26: three Clusters are open or closed in the file, two of them opened
\* by packets, and the seek head has their three entries
C26_Witness ==
    /\ mk.phase = "open"
    /\ Len(mk.mkv.cluster_seekhead.entries) = 3
    /\ Cardinality(ClusterOffsets) = 3
    /\ Len(PacketCalls) = 2

\* the identifiers of the four entries of the main SeekHead
MainSeekIds ==
    <<MATROSKA_ID_INFO, MATROSKA_ID_TRACKS, MATROSKA_ID_CUES, MATROSKA_ID_SEEKHEAD>>

\* C27: in every run of mkv_write_header, packets and mkv_write_trailer
\* the main SeekHead never holds more than the 10 entries it has room for;
\* when the trailer writes it, it holds exactly the four entries Info,
\* Tracks, Cues, SeekHead in this order, neither add of the trailer having
\* been rejected.
C27_MainSeekHead ==
    /\ mk.phase \in {"open", "closed"} =>
          /\ mk.mkv.main_seekhead.max_entries = 10
          /\ Len(mk.mkv.main_seekhead.entries) <= 10
    /\ mk.phase = "open" =>
          [n \in DOMAIN mk.mkv.main_seekhead.entries |->
              mk.mkv.main_seekhead.entries[n].elementid] = SubSeq(MainSeekIds, 1, 2)
    /\ mk.phase = "closed" =>
          LET main == ReadSeekHead(pb, SegmentOffset)
          IN  /\ main.ok
              /\ [n \in DOMAIN main.v |-> main.v[n].id]
                     = [n \in 1 .. 4 |-> Written(put_ebml_id(NewIO, MainSeekIds[n]))]
              /\ [n \in DOMAIN mk.mkv.main_seekhead.entries |->
                      mk.mkv.main_seekhead.entries[n].elementid] = MainSeekIds

\* C27: the trailer wrote the main SeekHead of a file of three packets
C27_Witness ==
    /\ mk.phase = "closed"
    /\ Len(PacketCalls) = 3
    /\ Len(ReadSeekHead(pb, SegmentOffset).v) = 4
    /\ Len(mk.mkv.main_seekhead.entries) = 4

\* the offset o lies in one of the regions that mkv_write_header reserved:
\* 28 * 10 + 13 bytes for the main SeekHead, 11 for the Duration and, when
\* not bit-exact, 19 for the SegmentUID
InReserved(o) ==
    \/ o \in mk.mkv.main_seekhead.filepos .. (mk.mkv.main_seekhead.filepos + 28 * 10 + 13 - 1)
    \/ o \in mk.mkv.duration_offset .. (mk.mkv.duration_offset + 11 - 1)
    \/ ~BITEXACT(mk.s) /\ o \in mk.mkv.segment_uid .. (mk.mkv.segment_uid + 19 - 1)
\* the offset o lies in the size field of the master that starts at start
InSizeField(o, start) == o \in (start - 8) .. (start - 1)
\* the step is a mkv_write_trailer call
IsTrailer == mk.phase = "open" /\ mk'.phase = "closed"

\* C28: the deferred patches of mkv_write_trailer (the main SeekHead with
\* the Void after it, the Duration, the SegmentUID) write only bytes of the
\* regions that the header reserved (28 * 10 + 13, 11 and 19 bytes): of the
\* bytes written before the call no other one changes, apart from the size
\* fields of the last Cluster and of the Segment, which the call closes;
\* the regions hold the SeekHead and its Void, the Duration and the
\* SegmentUID; after the patches the cursor is back at the end of the
\* file, where the Segment is closed.
C28_TrailerPatches ==
    [][IsTrailer =>
          /\ \A o \in {x \in DOMAIN pb.file \cup DOMAIN pb'.file : x < pb.pos} :
                (\/ (o \in DOMAIN pb.file) # (o \in DOMAIN pb'.file)
                 \/ o \in DOMAIN pb.file /\ pb.file[o] # pb'.file[o])
                    => \/ InReserved(o)
                       \/ InSizeField(o, mk.mkv.cluster)
                       \/ InSizeField(o, mk.mkv.segment)
          /\ LET fp == mk.mkv.main_seekhead.filepos
                 a  == TotalAt(pb', fp, MATROSKA_ID_SEEKHEAD)
             IN  /\ a > 0
                 /\ a + TotalAt(pb', fp + a, EBML_ID_VOID) = 28 * 10 + 13
          /\ TotalAt(pb', mk.mkv.duration_offset, ID.MATROSKA_ID_DURATION) = 11
          /\ ~BITEXACT(mk.s) =>
                /\ BytesAt(pb', mk.mkv.segment_uid, 3) = <<\h73, \hA4, \h90>>
                /\ \A o \in (mk.mkv.segment_uid + 3) .. (mk.mkv.segment_uid + 18) :
                      o \notin DOMAIN pb'.file
          /\ EbmlDecode(BytesAt(pb', mk.mkv.cluster - 8, 8))
                 = U64Of(pb.pos - mk.mkv.cluster)
          /\ pb'.pos > pb.pos
          /\ \A o \in DOMAIN pb'.file : o < pb'.pos
          /\ (pb'.pos - 1) \in DOMAIN pb'.file
          /\ EbmlDecode(BytesAt(pb', mk.mkv.segment - 8, 8))
                 = U64Of(pb'.pos - mk.mkv.segment)]_vars

\* C28: the trailer patched the Duration and the SegmentUID of a file of
\* two packets or more, which has a title
C28_Witness ==
    /\ mk.phase = "closed"
    /\ ~BITEXACT(mk.s)
    /\ Len(PacketCalls) >= 2
    /\ BytesAt(pb, mk.mkv.duration_offset, 3) = <<\h44, \h89, \h88>>
    /\ BytesAt(pb, mk.mkv.segment_uid, 3) = <<\h73, \hA4, \h90>>
    /\ TotalAt(pb, mk.mkv.main_seekhead.filepos, MATROSKA_ID_SEEKHEAD) > 0

\* the two bytes bs as the int16_t that a reader takes them for
Int16(bs) == IF bs[1] >= 128 THEN 256 * bs[1] + bs[2] - 65536 ELSE 256 * bs[1] + bs[2]
\* the length of what follows the data of the block of the packet p in
\* its call: nothing, or the BlockDuration of a subtitle
AfterBlock(p) ==
    IF Streams[p.stream_index + 1].codec_type # "CODEC_TYPE_SUBTITLE" THEN 0
    ELSE put_ebml_uint(NewIO, ID.MATROSKA_ID_DURATION, U64Of(p.duration)).pos
\* the 16-bit field of the block that the last call wrote: it follows the
\* track number and is followed by the flags and the data
StoredDelta ==
    Int16(BytesAt(pb, pb.pos - AfterBlock(mk.last.pkt) - mk.last.pkt.size - 3, 2))

\* C29: the difference pkt.pts - cluster_pts that a block stores in its
\* 16-bit field is at most 5000; it lies in 0 .. 5000 when the pts of the
\* packets are non-negative and do not decrease; for any sequence of
\* non-negative pts it lies in -32768 .. 32767, so that the field read as
\* a signed 16-bit number is the difference.
C29_BlockDelta ==
    (mk.phase = "open" /\ mk.last.op = "packet") =>
        LET d == mk.last.pkt.pts - Low31(mk.mkv.cluster_pts)
        IN  /\ d <= 5000
            /\ (\A n \in 2 .. Len(PacketCalls) :
                    PacketCalls[n - 1].pkt.pts <= PacketCalls[n].pkt.pts) => d >= 0
            /\ d \in -32768 .. 32767
            /\ StoredDelta = d

\* C29 for the packets that are not more than 32768 ms behind the start of
\* their cluster
C29_NearDelta ==
    (/\ mk.phase = "open" /\ mk.last.op = "packet"
     /\ mk.last.pkt.pts - Low31(mk.mkv.cluster_pts) >= -32768) =>
        LET d == mk.last.pkt.pts - Low31(mk.mkv.cluster_pts)
        IN  /\ d <= 5000
            /\ (\A n \in 2 .. Len(PacketCalls) :
                    PacketCalls[n - 1].pkt.pts <= PacketCalls[n].pkt.pts) => d >= 0
            /\ StoredDelta = d

\* what one av_md5_update call of the muxer hashes of the packet p: the
\* first min(200, size) bytes of its data
Hashed(p) == [data |-> p.data, len |-> FFMIN(200, p.size)]
\* the packet calls whose block is the first one of its Cluster, in order
FirstOfCluster(c) ==
    \A d \in Range(PacketCalls) : ClusterOf(d) = ClusterOf(c) => c.end <= d.end
FirstCalls == SelectSeq(PacketCalls, FirstOfCluster)
\* the packet calls that opened a Cluster, in order
OpeningCalls == SelectSeq(PacketCalls, LAMBDA c : ClusterAt(c.at))

\* C30: when the output is not bit-exact, the SegmentUID that the trailer
\* writes is the MD5 of the first min(200, size) bytes of the first packet
\* written into each Cluster, in the order of the Clusters: the hasher was
\* updated exactly once for each Cluster and with nothing else.
C30_SegmentUidOfFirstPackets ==
    (mk.phase = "closed" /\ ~BITEXACT(mk.s)) =>
        /\ BytesAt(pb, mk.mkv.segment_uid, 3) = <<\h73, \hA4, \h90>>
        /\ mk.mkv.md5_ctx = [n \in DOMAIN FirstCalls |-> Hashed(FirstCalls[n].pkt)]

\* C30 for the Clusters that mkv_write_packet opened: the Cluster that
\* mkv_write_header opened adds nothing to the hash
C30_OpenedClusters ==
    (mk.phase = "closed" /\ ~BITEXACT(mk.s)) =>
        /\ BytesAt(pb, mk.mkv.segment_uid, 3) = <<\h73, \hA4, \h90>>
        /\ mk.mkv.md5_ctx = [n \in DOMAIN OpeningCalls |-> Hashed(OpeningCalls[n].pkt)]

\* the offset at which the last packet call started its block: the cursor
\* at the entry of the call, or the end of the ClusterTimecode of the
\* Cluster that the call opened
BlockStart ==
    IF OpenedCluster THEN mk.last.pos + 12 + Len(TimecodeOf(mk.last.pkt.pts))
    ELSE mk.last.pos
IsSubtitle(p) == Streams[p.stream_index + 1].codec_type = "CODEC_TYPE_SUBTITLE"
\* the SimpleBlock of the last packet call takes the file from BlockStart
\* to its end, and its flags byte says whether the packet is a key frame
OneSimpleBlock ==
    /\ TotalAt(pb, BlockStart, ID.MATROSKA_ID_SIMPLEBLOCK) = pb.pos - BlockStart
    /\ BytesAt(pb, pb.pos - mk.last.pkt.size - 1, 1)
           = <<IF mk.last.pkt.key THEN \h80 ELSE 0>>
\* the BlockGroup of the last packet call takes the file from BlockStart to
\* its end and holds a Block with flags 0 and then the element of the
\* identifier id with the duration of the packet
OneBlockGroup(id) ==
    LET g == PayloadAt(pb, BlockStart, MATROSKA_ID_BLOCKGROUP)
        b == TotalAt(pb, g.at, ID.MATROSKA_ID_BLOCK)
        d == ReadUint(pb, g.at + b, id)
    IN  /\ TotalAt(pb, BlockStart, MATROSKA_ID_BLOCKGROUP) = pb.pos - BlockStart
        /\ b > 0
        /\ BytesAt(pb, g.at + b - mk.last.pkt.size - 1, 1) = <<0>>
        /\ d.ok
        /\ d.v = U64Of(mk.last.pkt.duration)
        /\ d.next = pb.pos

\* C31: mkv_write_packet writes a packet of a video or audio stream as one
\* SimpleBlock whose flags byte is 0x80 for a key frame and 0 otherwise,
\* and a packet of a subtitle stream as one BlockGroup that holds a Block
\* with flags 0 followed by a BlockDuration equal to pkt.duration; one
\* block is written per packet.
C31_BlockOfPacket ==
    (mk.phase = "open" /\ mk.last.op = "packet") =>
        IF IsSubtitle(mk.last.pkt) THEN OneBlockGroup(ID.MATROSKA_ID_BLOCKDURATION)
        ELSE OneSimpleBlock

\* C31 with the identifier that the code gives the duration of the block
C31_BlockAsCoded ==
    (mk.phase = "open" /\ mk.last.op = "packet") =>
        IF IsSubtitle(mk.last.pkt) THEN OneBlockGroup(ID.MATROSKA_ID_DURATION)
        ELSE OneSimpleBlock

(***************************************************************************)
(* SpecAlloc: one call of mkv_write_header, of mkv_write_packet or of an   *)
(* MXF metadata handler in which an allocation returns NULL.               *)
(*   mx.op      "header", "packet" or "set"                                *)
(*   mx.fail    the allocation of the call that fails, counted from 1 in   *)
(*              the order in which the call allocates                      *)
(*   mx.cfg, mx.pkt  the configuration and the packet of a muxer call      *)
(*   mx.key, mx.items, mx.mxf  the set and the context of a handler call   *)
(*   mx.res     [ret, ub, failed]: the result, whether NULL was            *)
(*              dereferenced or written through, and whether the call      *)
(*              came to the allocation mx.fail at all                      *)
(***************************************************************************)
MaxAllocs == 7

\* mkv_write_header when its allocation number fail returns NULL.  The
\* header allocates, in this order: md5_ctx, the main and the cluster seek
\* head (mkv_start_seekhead returns NULL), the entries for Info, Tracks
\* and Cluster (av_realloc in mkv_add_seekhead_entry) and the cues.
header_null(fail) ==
    IF fail = 1      \* av_md5_init(mkv->md5_ctx) initialises what md5_ctx points at
    THEN [ret |-> 0, ub |-> TRUE, failed |-> TRUE]
    ELSE IF fail = 2 \* mkv_add_seekhead_entry(mkv->main_seekhead, ..) reads seekhead->entries
    THEN [ret |-> 0, ub |-> TRUE, failed |-> TRUE]
    ELSE IF fail = 3 \* mkv_add_seekhead_entry(mkv->cluster_seekhead, ..) likewise
    THEN [ret |-> 0, ub |-> TRUE, failed |-> TRUE]
    ELSE IF fail \in 4 .. 6 \* if (entries == NULL) return -1, passed on by the callers
    THEN [ret |-> -1, ub |-> FALSE, failed |-> TRUE]
    ELSE IF fail = 7 \* if (mkv->cues == NULL) return -1
    THEN [ret |-> -1, ub |-> FALSE, failed |-> TRUE]
    ELSE [ret |-> 0, ub |-> FALSE, failed |-> FALSE]

\* mkv_write_packet when its allocation number fail returns NULL: the
\* call allocates the entry of a new Cluster when it opens one, and the
\* cue point of a video key frame; both av_realloc results are tested
packet_null(fail, mkv_io, mkv, codec, pkt) ==
    LET sites == (IF cluster_is_full(mkv_io, mkv, pkt) THEN <<"seekhead">> ELSE <<>>)
                 \o (IF codec.codec_type = "CODEC_TYPE_VIDEO" /\ pkt.key
                     THEN <<"cues">> ELSE <<>>)
    IN  IF fail <= Len(sites) THEN [ret |-> -1, ub |-> FALSE, failed |-> TRUE]
        ELSE [ret |-> 0, ub |-> FALSE, failed |-> FALSE]

\* the allocations of a handler in order: the object (the Preface and the
\* Content Storage are read into the MXFContext and allocate none), then
\* for each batch its references and, but for the labels of 0x3B0A, its
\* pointers; n is the batch the allocation belongs to
RECURSIVE batch_allocs(_, _)
batch_allocs(batches, n) ==
    IF n > Len(batches) THEN <<>>
    ELSE (IF ~batches[n].allocated THEN <<>>
          ELSE IF batches[n].tag = \h3B0A THEN <<[what |-> "refs", n |-> n]>>
          ELSE <<[what |-> "refs", n |-> n], [what |-> "ptrs", n |-> n]>>)
         \o batch_allocs(batches, n + 1)
\* a handler when its allocation number fail returns NULL; h is the call
\* with every allocation succeeding.  No handler tests what av_malloc or
\* av_mallocz returned:
\*   the object: the cases of the known tags store through it
\*     (get_buffer(pb, track->uid, 16)), and the comparison with the
\*     references of the context reads object->uid;
\*   the references: get_buffer(pb, refs, count * sizeof(UID)) stores
\*     through them when the batch has bytes to read;
\*   the pointers: the call does not use them and ends as without the
\*     failure.
set_null(fail, key, h, mxf) ==
    LET sites == (IF \/ IS_KLV_KEY(key, mxf_metadata_preface_key)
                     \/ IS_KLV_KEY(key, mxf_metadata_content_storage_key)
                  THEN <<>> ELSE <<[what |-> "object", n |-> 0]>>)
                 \o batch_allocs(h.items.batches, 1)
    IN  IF fail > Len(sites) THEN [ret |-> h.ret, ub |-> FALSE, failed |-> FALSE]
        ELSE IF sites[fail].what = "object"
        THEN [ret |-> h.ret, ub |-> TRUE, failed |-> TRUE]
        ELSE IF sites[fail].what = "refs"
        THEN [ret |-> h.ret, ub |-> h.items.batches[sites[fail].n].read > 0,
              failed |-> TRUE]
        ELSE [ret |-> h.ret, ub |-> FALSE, failed |-> TRUE]

NoResult == [ret |-> 0, ub |-> FALSE, failed |-> FALSE]
InitAlloc ==
    /\ pb = NewIO
    /\ sz = IdleSz
    /\ eb = IdleEb
    /\ sk = IdleSk
    /\ mk = IdleMk
    /\ \E fail \in 1 .. MaxAllocs :
          \/ \E c \in Configs :
                mx = [phase |-> "alloc", op |-> "header", fail |-> fail, cfg |-> c,
                      done |-> FALSE, res |-> NoResult]
          \/ \E c \in Configs, p \in PacketChoices :
                /\ fail <= 2
                /\ mx = [phase |-> "alloc", op |-> "packet", fail |-> fail, cfg |-> c,
                         pkt |-> p @@ [data |-> 1], done |-> FALSE, res |-> NoResult]
          \/ \E key \in SetKeys :
                \E item \in SoundItems(key) :
                    /\ fail <= 3
                    /\ mx = [phase |-> "alloc", op |-> "set", fail |-> fail,
                             key |-> key, items |-> <<item>>,
                             mxf |-> read_header_sets(NewMXFContext,
                                         <<Named("ContentStorage"), Named("MP"),
                                           Named("SP"), Named("MT1"), Named("MS1"),
                                           Named("MD")>>, 1, 0).mxf,
                             done |-> FALSE, res |-> NoResult]

HeaderNull ==
    /\ mx.phase = "alloc" /\ mx.op = "header" /\ ~mx.done
    /\ mx' = [mx EXCEPT !.done = TRUE, !.res = header_null(mx.fail)]
    /\ UNCHANGED <<pb, sz, eb, sk, mk>>

PacketNull ==
    /\ mx.phase = "alloc" /\ mx.op = "packet" /\ ~mx.done
    /\ LET m == NewMk(mx.cfg)
           h == mkv_write_header(NewIO, m.s, m.mkv)
       IN  mx' = [mx EXCEPT !.done = TRUE,
                            !.res = packet_null(mx.fail, h.io, h.mkv,
                                        m.s.streams[mx.pkt.stream_index + 1], mx.pkt)]
    /\ UNCHANGED <<pb, sz, eb, sk, mk>>

SetNull ==
    /\ mx.phase = "alloc" /\ mx.op = "set" /\ ~mx.done
    /\ LET len == SetLength(mx.items, 1)
           k   == [name |-> "Set", key |-> mx.key, ber |-> BerOf(len), len |-> len,
                   set |-> NoSet]
           r   == klv_read_packet(k, 0)
           h   == read_local_set(mx.mxf, r.klv, SetBytes(mx.items, 1) \o FileRest)
       IN  mx' = [mx EXCEPT !.done = TRUE,
                            !.res = set_null(mx.fail, mx.key, h, mx.mxf)]
    /\ UNCHANGED <<pb, sz, eb, sk, mk>>

NextAlloc ==
    \/ HeaderNull
    \/ PacketNull
    \/ SetNull

SpecAlloc == InitAlloc /\ [][NextAlloc]_vars

\* C32: when an allocation of mkv_write_header, of mkv_write_packet or of
\* an MXF metadata handler returns NULL, the call returns a negative
\* result and NULL is neither dereferenced nor written through.
C32_NullIsTested ==
    (mx.phase = "alloc" /\ mx.done /\ mx.res.failed) =>
        /\ ~mx.res.ub
        /\ mx.res.ret < 0

\* C32 for the allocations whose result the code tests: the av_realloc
\* calls of mkv_add_seekhead_entry and mkv_add_cuepoint and the cues
C32_TestedAllocations ==
    (/\ mx.phase = "alloc" /\ mx.done /\ mx.res.failed
     /\ \/ mx.op = "packet"
        \/ mx.op = "header" /\ mx.fail >= 4) =>
        /\ ~mx.res.ub
        /\ mx.res.ret < 0


(***************************************************************************)
(* mxf_read_close (SpecMxf)                                                *)
(***************************************************************************)
\* C33: mxf_read_close completes without dereferencing a null pointer in
\* every state reachable after mxf_read_header, whether the header
\* succeeded or failed, also when a package slot, a track slot or the
\* sequence of a track is NULL.
C33_CloseOfNullSlots == mx.close.called => ~mx.close.ub

\* what does hold: mxf_read_close dereferences no NULL pointer when every
\* package slot, every track slot of the packages and the sequence of every
\* track is filled, whatever else is missing
SlotsFilled(mxf) ==
    \A i \in Idx(mxf.packages) :
        /\ ~IsNull(mxf.packages[i])
        /\ \A j \in Idx(mxf.packages[i].tracks) :
              /\ ~IsNull(mxf.packages[i].tracks[j])
              /\ ~IsNull(mxf.packages[i].tracks[j].sequence)
C33_CloseOfFilledSlots ==
    mx.close.called => (mx.close.ub <=> ~SlotsFilled(mx.mxf))


\* the blocks that the handler of the metadata set o allocates: the object
\* and, for each batch of the set, the array of references and the array of
\* pointers
ArraysOf(o, uid, fields) ==
    {Block(uid, f[2]) : f \in {f \in fields : f[1] \in DOMAIN o.set /\ Len(o.set[f[1]]) > 0}}
BlocksOf(o) ==
    IF HasUid(o)
    THEN {Block(o.set.uid, "object")}
         \cup ArraysOf(o, o.set.uid,
                  {<<"tracks_refs", "tracks_refs">>, <<"tracks_refs", "tracks">>,
                   <<"structural_components_refs", "structural_components_refs">>,
                   <<"structural_components_refs", "structural_components">>,
                   <<"sub_descriptors_refs", "sub_descriptors_refs">>,
                   <<"sub_descriptors_refs", "sub_descriptors">>})
    ELSE ArraysOf(o, 0,
                  {<<"packages_refs", "packages_refs">>, <<"packages_refs", "packages">>,
                   <<"essence_container_data_sets_refs", "essence_container_data_sets_refs">>,
                   <<"essence_container_data_sets_refs", "essence_container_data_sets">>,
                   <<"essence_containers_uls", "essence_containers_uls">>})
\* the blocks allocated by the header loop, and those of the objects that
\* hang nowhere
Allocated == UNION {BlocksOf(o) : o \in SeenSets}
Leaked == UNION {BlocksOf(o) : o \in {k \in SeenSets : HasUid(k) /\ k.set.uid \in OrphanUids}}
FreedOnce(freed) == \A a, b \in Idx(freed) : freed[a] = freed[b] => a = b

\* C34: every block allocated while the header was parsed (the objects and
\* their arrays of references and of pointers) is released exactly once by a
\* mxf_read_close call that completes: none is leaked and none is freed
\* twice, also the objects whose attachment failed.
C34_AllocatedFreedOnce ==
    (mx.close.called /\ ~mx.close.ub) =>
        /\ FreedOnce(mx.close.freed)
        /\ Range(mx.close.freed) = Allocated

\* what does hold: a mxf_read_close call that completes frees every block
\* once, except those of the object whose handler found no slot for it
C34_AttachedFreedOnce ==
    (mx.close.called /\ ~mx.close.ub) =>
        /\ FreedOnce(mx.close.freed)
        /\ Range(mx.close.freed) = Allocated \ Leaked


(***************************************************************************)
(* SpecTracks: mkv_write_header for every list of up to MaxStreams streams *)
(* of the kinds below: with and without a codec id string in               *)
(* ff_mkv_codec_tags, with and without a tag in codec_wav_tags, and a      *)
(* stream of a codec type that is neither video, audio nor subtitle.       *)
(* wav_tag is what codec_get_tag(codec_wav_tags, codec_id) returns,        *)
(* riff_size the number of bytes of put_bmp_header or put_wav_header.      *)
(* No stream is Vorbis, Theora or FLAC.                                    *)
(***************************************************************************)
MaxStreams == 2

StreamKinds ==
    {Streams[i] @@ [wav_tag |-> 0, riff_size |-> 0] : i \in Idx(Streams)}
    \cup
    { [codec_type |-> "CODEC_TYPE_VIDEO", codec_id |-> "CODEC_ID_MSMPEG4V3",
       codec_name |-> <<>>, language |-> <<>>, extradata_size |-> 0,
       flags_bitexact |-> FALSE, width |-> 320, height |-> 240,
       sample_aspect_ratio |-> [num |-> 0, den |-> 1],
       channels |-> 0, sample_rate |-> 0, bit_depth |-> 0,
       wav_tag |-> 0, riff_size |-> 40],
      [codec_type |-> "CODEC_TYPE_AUDIO", codec_id |-> "CODEC_ID_ADPCM_MS",
       codec_name |-> <<>>, language |-> <<>>, extradata_size |-> 0,
       flags_bitexact |-> FALSE, width |-> 0, height |-> 0,
       sample_aspect_ratio |-> [num |-> 0, den |-> 1],
       channels |-> 2, sample_rate |-> 44100, bit_depth |-> 4,
       wav_tag |-> 2, riff_size |-> 18],
      [codec_type |-> "CODEC_TYPE_AUDIO", codec_id |-> "CODEC_ID_RA_144",
       codec_name |-> <<>>, language |-> <<>>, extradata_size |-> 0,
       flags_bitexact |-> FALSE, width |-> 0, height |-> 0,
       sample_aspect_ratio |-> [num |-> 0, den |-> 1],
       channels |-> 1, sample_rate |-> 8000, bit_depth |-> 0,
       wav_tag |-> 0, riff_size |-> 0],
      [codec_type |-> "CODEC_TYPE_DATA", codec_id |-> "CODEC_ID_NONE",
       codec_name |-> <<>>, language |-> <<>>, extradata_size |-> 0,
       flags_bitexact |-> FALSE, width |-> 0, height |-> 0,
       sample_aspect_ratio |-> [num |-> 0, den |-> 1],
       channels |-> 0, sample_rate |-> 0, bit_depth |-> 0,
       wav_tag |-> 0, riff_size |-> 0] }

StreamLists == UNION {[1 .. n -> StreamKinds] : n \in 1 .. MaxStreams}

InitTracks ==
    /\ pb = NewIO
    /\ sz = IdleSz
    /\ eb = IdleEb
    /\ sk = IdleSk
    /\ mx = IdleMx
    /\ mk \in {[NewMk(c) EXCEPT !.s.streams = l] : c \in Configs, l \in StreamLists}

\* the run after mkv_write_header returned r; the phase keeps whether it
\* failed
HeaderReturned(r) ==
    /\ pb' = r.io
    /\ mk' = [mk EXCEPT !.phase = IF r.io.ub THEN "ub"
                                  ELSE IF r.ret < 0 THEN "failed"
                                  ELSE "open",
                        !.mkv = r.mkv]
    /\ UNCHANGED <<sz, eb, sk, mx>>

\* mkv_write_header on the streams
HeaderOfStreams ==
    /\ mk.phase = "new"
    /\ HeaderReturned(mkv_write_header(pb, mk.s, mk.mkv))

NextTracks == HeaderOfStreams
SpecTracks == InitTracks /\ [][NextTracks]_vars

\* a stream that Matroska cannot hold
Unsupported(st) ==
    \/ st.codec_type \notin {"CODEC_TYPE_VIDEO", "CODEC_TYPE_AUDIO", "CODEC_TYPE_SUBTITLE"}
    \/ /\ st.codec_type = "CODEC_TYPE_AUDIO"
       /\ st.codec_name = <<>>
       /\ st.wav_tag = 0

\* C35: mkv_write_tracks rejects unsupported streams with a negative
\* result, which makes mkv_write_header fail: a stream whose codec type is
\* none of video, audio or subtitle, and an audio stream that has neither a
\* native Matroska codec id nor a WAVE format tag.
C35_UnsupportedRejected ==
    (mk.phase # "new" /\ \E i \in Idx(mk.s.streams) : Unsupported(mk.s.streams[i]))
        => mk.phase = "failed"

\* what does hold: mkv_write_header fails exactly for the lists with an audio
\* stream without codec id and without tag
C35_AudioWithoutIdRejected ==
    mk.phase # "new" =>
        (mk.phase = "failed" <=>
            \E i \in Idx(mk.s.streams) :
                /\ mk.s.streams[i].codec_type = "CODEC_TYPE_AUDIO"
                /\ Unsupported(mk.s.streams[i]))


(***************************************************************************)
(* SpecAac: get_aac_sample_rates on AAC extradata of 0 .. MaxExtradata     *)
(* bytes.  The first two bytes hold the sampling frequency index (the low  *)
(* 3 bits of byte 0 and the top bit of byte 1), byte 4 the index of the    *)
(* SBR output rate in its bits 6..3.  mk.reads lists the indexes at which  *)
(* aac_sample_rates was read.  A read past the 12 entries of the table     *)
(* yields whatever lies behind it: any value of BehindTable.               *)
(***************************************************************************)
MaxExtradata == 5

aac_sample_rates ==
    <<96000, 88200, 64000, 48000, 44100, 32000,
      24000, 22050, 16000, 12000, 11025, 8000>>
BehindTable == {0, 7350}

\* aac_sample_rates[sri]
table_read(sri, behind) ==
    IF sri < Len(aac_sample_rates) THEN aac_sample_rates[sri + 1] ELSE behind

\* the part `if (codec->extradata_size == 5)`, r being the result so far
aac_output_rate(codec, r, behind) ==
    IF Len(codec.extradata) # 5 THEN r
    ELSE LET sri == (codec.extradata[5] \div 8) % 16
         IN  IF sri > 12 THEN r
             ELSE [r EXCEPT !.output_sample_rate = table_read(sri, behind),
                            !.reads = Append(@, sri),
                            !.ub = @ \/ sri >= Len(aac_sample_rates)]

\* [sample_rate, output_sample_rate, reads, ub]: the two rates after the
\* call, the indexes read, and whether the table was read out of bounds.
\* (extradata[0] << 1) & 0xE has its lowest bit clear, so the | adds.
get_aac_sample_rates(codec, sample_rate, output_sample_rate, behind) ==
    LET r == [sample_rate |-> sample_rate, output_sample_rate |-> output_sample_rate,
              reads |-> <<>>, ub |-> FALSE]
    IN  IF Len(codec.extradata) < 2 THEN r
        ELSE LET sri == ((codec.extradata[1] * 2) % 16) + (codec.extradata[2] \div 128)
             IN  IF sri > 12 THEN r
                 ELSE aac_output_rate(codec,
                          [r EXCEPT !.sample_rate = table_read(sri, behind),
                                    !.reads = Append(@, sri),
                                    !.ub = sri >= Len(aac_sample_rates)],
                          behind)

\* the extradata: byte 0 with object type 2 and the upper bits of the index,
\* byte 1 with its lowest bit, byte 4 with the index of the output rate
ExtradataByte(n) ==
    IF n = 1 THEN {16 + k : k \in 0 .. 7}
    ELSE IF n = 2 THEN {0, 128}
    ELSE IF n = 5 THEN {8 * k : k \in 0 .. 15}
    ELSE {0}
RECURSIVE ExtradataOf(_)
ExtradataOf(n) ==
    IF n = 0 THEN {<<>>}
    ELSE {Append(e, b) : e \in ExtradataOf(n - 1), b \in ExtradataByte(n)}
Extradata == UNION {ExtradataOf(n) : n \in 0 .. MaxExtradata}

InitAac ==
    /\ pb = NewIO
    /\ sz = IdleSz
    /\ eb = IdleEb
    /\ sk = IdleSk
    /\ mx = IdleMx
    /\ \E e \in Extradata :
          mk = [phase |-> "aac", done |-> FALSE,
                codec |-> [codec_id |-> "CODEC_ID_AAC", sample_rate |-> 44100,
                           extradata |-> e],
                sample_rate |-> 44100, output_sample_rate |-> 0,
                reads |-> <<>>, ub |-> FALSE]

\* the call of mkv_write_tracks: sample_rate is codec->sample_rate and
\* output_sample_rate 0 before it
GetAacSampleRates ==
    /\ mk.phase = "aac"
    /\ ~mk.done
    /\ \E behind \in BehindTable :
          mk' = get_aac_sample_rates(mk.codec, mk.codec.sample_rate, 0, behind)
                @@ [mk EXCEPT !.done = TRUE]
    /\ UNCHANGED <<pb, sz, eb, sk, mx>>

NextAac == GetAacSampleRates
SpecAac == InitAac /\ [][NextAac]_vars

\* the two indexes of the extradata
SampleRateIndex == ((mk.codec.extradata[1] % 8) * 2) + (mk.codec.extradata[2] \div 128)
OutputRateIndex == (mk.codec.extradata[5] \div 8) % 16

\* C36: for every AAC extradata of at least 2 bytes get_aac_sample_rates
\* reads the 12-entry table only at an index in 0 .. 11: each of the index
\* values 12 .. 15, for the sample rate and (with 5 bytes of extradata) for
\* the output rate, is out of range and leaves the rate as it was.
C36_IndexInTable ==
    (mk.done /\ Len(mk.codec.extradata) >= 2) =>
        /\ \A n \in Idx(mk.reads) : mk.reads[n] \in 0 .. 11
        /\ SampleRateIndex \in 12 .. 15 => mk.sample_rate = mk.codec.sample_rate
        /\ (/\ Len(mk.codec.extradata) = 5
            /\ SampleRateIndex < 12
            /\ OutputRateIndex \in 12 .. 15) => mk.output_sample_rate = 0

\* what does hold: the indexes 13 .. 15 are out of range, the indexes 0 .. 11
\* give the rate of the table, and no index above 12 is read
C36_IndexAbove12 ==
    (mk.done /\ Len(mk.codec.extradata) >= 2) =>
        /\ \A n \in Idx(mk.reads) : mk.reads[n] \in 0 .. 12
        /\ mk.ub <=> \E n \in Idx(mk.reads) : mk.reads[n] = 12
        /\ SampleRateIndex \in 13 .. 15 =>
              mk.sample_rate = mk.codec.sample_rate /\ mk.reads = <<>>
        /\ SampleRateIndex < 12 =>
              mk.sample_rate = aac_sample_rates[SampleRateIndex + 1]
        /\ (/\ Len(mk.codec.extradata) = 5
            /\ SampleRateIndex < 12
            /\ OutputRateIndex \in 13 .. 15) => mk.output_sample_rate = 0


(***************************************************************************)
(* SpecShare: the loop of mxf_read_header over the sets of SharePool, in   *)
(* any order, each set at most once.  Several parents record the same      *)
(* reference: both slots of the Material Package and the first slot of a   *)
(* Source Package record the Track uid 11, three Tracks record the         *)
(* Sequence uid 13, and the Descriptor uid 31 is recorded by a Package and *)
(* twice by the Multiple Descriptor.  Two Tracks, two Sequences and two    *)
(* Descriptors have the same InstanceUID; track_id, duration and           *)
(* linked_track_id tell the objects apart.                                 *)
(***************************************************************************)
SharePool ==
    { Klv("ContentStorage", mxf_metadata_content_storage_key, 72,
          [packages_refs |-> <<10, 20, 40>>,
           essence_container_data_sets_refs |-> <<>>]),
      Klv("MP", mxf_metadata_material_package_key, 64,
          [uid |-> 10, tracks_refs |-> <<11, 11>>]),
      Klv("SP", mxf_metadata_source_package_key, 120,
          [uid |-> 20, tracks_refs |-> <<11, 21>>, package_uid |-> 200,
           descriptor_ref |-> 30]),
      Klv("SP3", mxf_metadata_source_package_key, 88,
          [uid |-> 40, tracks_refs |-> <<>>, package_uid |-> 400,
           descriptor_ref |-> 31]),
      TrackKlv("Ta", 11, 1, NoNumber, 13),
      TrackKlv("Tb", 11, 2, NoNumber, 13),
      TrackKlv("Tc", 21, 3, PictureNumber, 13),
      SequenceKlv("Sa", 13, picture_essence_track_ul, <<>>),
      [SequenceKlv("Sb", 13, picture_essence_track_ul, <<>>) EXCEPT !.set.duration = 100],
      Klv("MD", mxf_metadata_multiple_descriptor_key, 64,
          [uid |-> 30, sub_descriptors_refs |-> <<31, 31>>]),
      DescriptorKlv("Da", mxf_metadata_mpegvideo_descriptor_key, 31, 1,
          mxf_codec_uls[1].uid, 720, 576, [num |-> 25, den |-> 1], 0, 0),
      DescriptorKlv("Db", mxf_metadata_wave_descriptor_key, 31, 2,
          mxf_codec_uls[9].uid, 0, 0, [num |-> 48000, den |-> 1], 2, 24) }

InitShare ==
    /\ pb = NewIO
    /\ sz = IdleSz
    /\ eb = IdleEb
    /\ sk = IdleSk
    /\ mk = IdleMk
    /\ mx = [phase |-> "share", seen |-> {}, mxf |-> NewMXFContext, ret |-> 0,
             pos |-> 0]

\* one pass of the loop of mxf_read_header: the next KLV of the file is a
\* set of the pool that was not read yet
ShareSet ==
    /\ mx.phase = "share"
    /\ \E k \in {o \in SharePool : o.name \notin mx.seen} :
          LET r == klv_read_packet(k, mx.pos)
              h == read_set(mx.mxf, r.klv)
          IN  mx' = [mx EXCEPT !.pos = r.pos + r.klv.length,
                               !.seen = @ \cup {k.name},
                               !.mxf = h.mxf,
                               !.ret = h.ret,
                               !.phase = IF h.ret < 0 THEN "failed" ELSE "share"]
    /\ UNCHANGED <<pb, sz, eb, sk, mk>>

NextShare == ShareSet
SpecShare == InitShare /\ [][NextShare]_vars

\* the pointer p points to the object parsed from the set k
IsObjectOf(p, k) ==
    /\ ~IsNull(p)
    /\ p.uid = k.set.uid
    /\ p.kind = "track" => p.track_id = k.set.track_id
    /\ p.kind = "sequence" => p.duration = k.set.duration
    /\ (p.kind = "descriptor" /\ "linked_track_id" \in DOMAIN k.set) =>
           p.linked_track_id = k.set.linked_track_id
\* the slots <<i, j>> of the tracks, the tracks <<i, j>> with a sequence,
\* the descriptor slots <<i, 0>> and the sub-descriptor slots <<i, j>>
TrackSlots(mxf) ==
    {p \in UNION {{<<i, j>> : j \in IF IsNull(mxf.packages[i]) THEN {}
                                     ELSE Idx(mxf.packages[i].tracks)} :
                    i \in Idx(mxf.packages)} :
        ~IsNull(mxf.packages[p[1]].tracks[p[2]])}
TrackHolders(mxf, k) ==
    {p \in TrackSlots(mxf) : IsObjectOf(mxf.packages[p[1]].tracks[p[2]], k)}
SequenceHolders(mxf, k) ==
    {p \in TrackSlots(mxf) : IsObjectOf(mxf.packages[p[1]].tracks[p[2]].sequence, k)}
DescriptorHolders(mxf, k) ==
    {<<i, 0>> : i \in {i \in Idx(mxf.packages) :
                    /\ ~IsNull(mxf.packages[i])
                    /\ IsObjectOf(mxf.packages[i].descriptor, k)}}
    \cup
    UNION {{<<i, j>> : j \in {j \in Idx(mxf.packages[i].descriptor.sub_descriptors) :
                IsObjectOf(mxf.packages[i].descriptor.sub_descriptors[j], k)}} :
            i \in {i \in Idx(mxf.packages) :
                    /\ ~IsNull(mxf.packages[i])
                    /\ ~IsNull(mxf.packages[i].descriptor)}}
Holders(mxf, k) ==
    IF IS_KLV_KEY(k.key, mxf_metadata_track_key) THEN TrackHolders(mxf, k)
    ELSE IF IS_KLV_KEY(k.key, mxf_metadata_sequence_key) THEN SequenceHolders(mxf, k)
    ELSE IF "tracks_refs" \in DOMAIN k.set \/ "packages_refs" \in DOMAIN k.set THEN {}
    ELSE DescriptorHolders(mxf, k)

\* C37: after any sequence of parsed metadata sets each parsed Sequence is
\* held by at most one Track, each parsed Track by at most one track slot of
\* a Package, and each parsed descriptor by at most one descriptor slot of a
\* Package or one sub-descriptor slot of a Multiple Descriptor, also when
\* several parents record the same reference.
C37_OneHolder ==
    \A k \in {o \in SharePool : o.name \in mx.seen} :
        Cardinality(Holders(mx.mxf, k)) <= 1

\* C37: two attached Tracks record the Sequence uid 13 and a Sequence with
\* that uid was attached; a Package and the Multiple Descriptor record the
\* Descriptor uid 31 and a Descriptor with that uid was attached
C37_Witness ==
    /\ Cardinality({p \in TrackSlots(mx.mxf) :
            mx.mxf.packages[p[1]].tracks[p[2]].sequence_ref = 13}) >= 2
    /\ \E k \in SharePool : /\ k.name \in {"Sa", "Sb"} /\ k.name \in mx.seen
                             /\ Cardinality(SequenceHolders(mx.mxf, k)) = 1
    /\ {"SP", "SP3", "MD"} \subseteq mx.seen
    /\ \E k \in SharePool : /\ k.name \in {"Da", "Db"} /\ k.name \in mx.seen
                             /\ Cardinality(DescriptorHolders(mx.mxf, k)) = 1


(***************************************************************************)
(* The open master elements of a muxer run (Spec)                          *)
(***************************************************************************)
\* the identifiers of the open masters, the first one opened first
OpenIds(io) == [n \in Idx(io.open) |-> io.open[n].id]
Occurrences(ids, id) == Cardinality({n \in Idx(ids) : ids[n] = id})

\* C38: at every point of a run header, packets, trailer the open master
\* elements form a stack (every end_ebml_master closes the master opened
\* last among those still open), at most one Cluster is open, every block
\* is written while the Segment and exactly one Cluster are open, and after
\* mkv_write_trailer no master element is open.
C38_MasterStack ==
    /\ pb.lifo
    /\ Occurrences(OpenIds(pb), MATROSKA_ID_CLUSTER) <= 1
    /\ mk.phase = "open" => OpenIds(pb) = <<ID.MATROSKA_ID_SEGMENT, MATROSKA_ID_CLUSTER>>
    /\ (mk.phase \in {"open", "closed"} /\ mk.n > 0) =>
          /\ Occurrences(pb.at_block, ID.MATROSKA_ID_SEGMENT) = 1
          /\ Occurrences(pb.at_block, MATROSKA_ID_CLUSTER) = 1
          /\ SubSeq(pb.at_block, 1, 2) = <<ID.MATROSKA_ID_SEGMENT, MATROSKA_ID_CLUSTER>>
    /\ mk.phase = "closed" => pb.open = <<>>

\* C38: the trailer was written after a packet opened a second Cluster and
\* a subtitle packet wrote its Block inside a BlockGroup
C38_Witness ==
    /\ mk.phase = "closed"
    /\ pb.open = <<>>
    /\ Len(mk.mkv.cluster_seekhead.entries) >= 2
    /\ pb.at_block = <<ID.MATROSKA_ID_SEGMENT, MATROSKA_ID_CLUSTER, MATROSKA_ID_BLOCKGROUP>>


(***************************************************************************)
(* SpecNumber: a muxer run with MaxStreamIndex + 1 streams, all video      *)
(* except the second, and packets of the first, the second, a middle and   *)
(* the last two streams.                                                   *)
(***************************************************************************)
MaxStreamIndex == 125

NumberedStreams ==
    [i \in 1 .. (MaxStreamIndex + 1) |-> IF i = 2 THEN Streams[2] ELSE Streams[1]]
NumberedIndexes == {0, 1, MaxStreamIndex \div 2, MaxStreamIndex - 1, MaxStreamIndex}
NumberedPackets ==
    [stream_index : NumberedIndexes, pts : {0}, size : {3}, duration : {40},
     key : BOOLEAN]
MaxNumbered == 2

InitNumber ==
    /\ pb = NewIO
    /\ sz = IdleSz
    /\ eb = IdleEb
    /\ sk = IdleSk
    /\ mx = IdleMx
    /\ mk \in {[NewMk(c) EXCEPT !.s.streams = NumberedStreams] : c \in Configs}

\* one mkv_write_packet call
NumberedPacket ==
    /\ mk.phase = "open"
    /\ mk.n < MaxNumbered
    /\ \E p \in NumberedPackets :
          Returned(mkv_write_packet(pb, mk.s, mk.mkv, p @@ [data |-> mk.n + 1]),
                   "packet", p @@ [data |-> mk.n + 1], "open")

NextNumber ==
    \/ WriteHeader
    \/ NumberedPacket
    \/ WriteTrailer
SpecNumber == InitNumber /\ [][NextNumber]_vars

\* the offset in the file of the element that the main seek head lists
\* with the identifier id (the first such entry)
ListedAt(id) ==
    LET es == mk.mkv.main_seekhead.entries
        k == CHOOSE k \in Idx(es) :
                /\ es[k].elementid = id
                /\ \A j \in 1 .. (k - 1) : es[j].elementid # id
    IN  Low31(es[k].segmentpos) + mk.mkv.main_seekhead.segment_offset
\* the big-endian number in the bytes bs, as an integer (below 2^31)
RECURSIVE IntOf(_)
IntOf(bs) ==
    IF bs = <<>> THEN 0
    ELSE 256 * IntOf(SubSeq(bs, 1, Len(bs) - 1)) + bs[Len(bs)]
\* the element id at offset o of the bytes f, shorter than 2^31 bytes:
\* [ok, at, len], where its payload starts and how long it is
ShortElement(f, o, id) ==
    LET n == ebml_id_size(id)
        w == EbmlWidth(f[o + n])
        size == [k \in 1 .. w |-> IF k = 1 THEN f[o + n] - 2 ^ (8 - w)
                                   ELSE f[o + n + k - 1]]
    IN  [ok |-> /\ \A k \in 1 .. n : f[o + k - 1] = (id \div (256 ^ (n - k))) % 256
                /\ w > 0,
         at |-> o + n + w, len |-> IntOf(size)]
\* the unsigned integer element id at o: [ok, v, next]
ShortUint(f, o, id) ==
    LET e == ShortElement(f, o, id)
    IN  [ok |-> e.ok, v |-> IntOf([k \in 1 .. e.len |-> f[e.at + k - 1]]),
         next |-> e.at + e.len]
\* the first k TrackEntry elements from o to end, each [ok, number, uid]:
\* the values of the TrackNumber and TrackUID elements it starts with; es
\* are the entries and next is the offset behind them.  The k entries are
\* read as two halves, which keeps the evaluation shallow.
RECURSIVE ReadTrackEntries(_, _, _, _)
ReadTrackEntries(f, o, end, k) ==
    IF o >= end \/ k = 0 THEN [es |-> <<>>, next |-> o]
    ELSE IF k = 1
    THEN LET p == ShortElement(f, o, ID.MATROSKA_ID_TRACKENTRY)
             n == ShortUint(f, p.at, ID.MATROSKA_ID_TRACKNUMBER)
             u == ShortUint(f, n.next, ID.MATROSKA_ID_TRACKUID)
         IN  IF ~p.ok
             THEN [es |-> <<[ok |-> FALSE, number |-> 0, uid |-> 0]>>, next |-> end]
             ELSE [es |-> <<[ok |-> n.ok /\ u.ok, number |-> n.v, uid |-> u.v]>>,
                   next |-> p.at + p.len]
    ELSE LET a == ReadTrackEntries(f, o, end, k \div 2)
             b == ReadTrackEntries(f, a.next, end, k - k \div 2)
         IN  [es |-> a.es \o b.es, next |-> b.next]
\* the TrackEntry elements of the Tracks master; one entry more than the
\* streams of the run would be read
TrackEntries ==
    LET p == ShortElement(pb.file, ListedAt(MATROSKA_ID_TRACKS), MATROSKA_ID_TRACKS)
    IN  IF p.ok
        THEN ReadTrackEntries(pb.file, p.at, p.at + p.len, MaxStreamIndex + 2).es
        ELSE <<>>
\* the first byte of the block that the last packet call wrote; the two
\* bytes of the time, the flags and the data follow it
TrackByte == pb.file[pb.pos - mk.last.pkt.size - 4]
\* the CueTrack values of the Cues, in file order
RECURSIVE TracksOfCues(_, _)
TracksOfCues(points, n) ==
    IF n > Len(points) THEN <<>>
    ELSE [k \in Idx(points[n].positions) |-> points[n].positions[k].track]
         \o TracksOfCues(points, n + 1)
\* the track numbers of the packets that got a cue entry, in call order
CuedCalls == SelectSeq(PacketCalls, LAMBDA c : c.pkt.key /\ c.pkt.stream_index # 1)

\* C39: for every stream index i in 0 .. 125 the track number is the same
\* everywhere in the file: TrackNumber and TrackUID of the TrackEntry of
\* the stream, the first byte of every block of the stream read as a
\* 1-byte EBML number, and the CueTrack of every cue entry of the stream
\* are i + 1.
C39_TrackNumber ==
    /\ mk.phase \in {"open", "closed"} =>
          LET es == TrackEntries
          IN  /\ Len(es) = MaxStreamIndex + 1
              /\ \A i \in 0 .. MaxStreamIndex :
                    /\ es[i + 1].ok
                    /\ es[i + 1].number = i + 1
                    /\ es[i + 1].uid = i + 1
    /\ (mk.phase = "open" /\ mk.last.op = "packet") =>
          /\ EbmlWidth(TrackByte) = 1
          /\ EbmlDecode(<<TrackByte>>) = U64Of(mk.last.pkt.stream_index + 1)
    /\ mk.phase = "closed" =>
          LET c == ReadCues(pb, ListedAt(MATROSKA_ID_CUES))
              t == TracksOfCues(c.v, 1)
          IN  /\ c.ok
              /\ Len(t) = Len(CuedCalls)
              /\ \A n \in Idx(t) : t[n] = U64Of(CuedCalls[n].pkt.stream_index + 1)

\* C39: the trailer was written after a key frame of the last stream and a
\* key frame of the first
C39_Witness ==
    /\ mk.phase = "closed"
    /\ Len(CuedCalls) = 2
    /\ CuedCalls[1].pkt.stream_index = MaxStreamIndex
    /\ CuedCalls[2].pkt.stream_index = 0
    /\ Len(TrackEntries) = MaxStreamIndex + 1


(***************************************************************************)
(* SpecPacket: mxf_read_packet calls on the rest of a file whose header    *)
(* metadata was read completely (two streams, picture and sound).  The     *)
(* rest of the file is any sequence of up to MaxPacketKlvs KLVs: essence   *)
(* of the two tracks and of an unknown track number, a partition pack, a   *)
(* length field of 9 bytes and a KLV whose 8-byte length field holds -25,  *)
(* the size of the KLV itself.                                             *)
(***************************************************************************)
MaxPacketKlvs == 3

\* a KLV of another key whose length field 88 FF FF FF FF FF FF FF E7 is
\* the int64_t -25: 16 key bytes, 9 length bytes, no value
BackKlv ==
    [name |-> "Back", key |-> mxf_header_partition_pack_key \o <<\h04, \h00>>,
     ber |-> <<\h88, \hFF, \hFF, \hFF, \hFF, \hFF, \hFF, \hFF, \hE7>>,
     len |-> 0, set |-> NoSet]

PacketKlvs == {Essence(PictureNumber, 5), Essence(SoundNumber, 7),
               Essence(NoNumber, 5), PartitionPack, BadKlv, BackKlv}
PacketFiles == UNION {[1 .. n -> PacketKlvs] : n \in 1 .. MaxPacketKlvs}

\* the header metadata of the file, its size and the context after it
PacketHeader == LinkFile(<<15>>, <<16>>, TRUE)
PacketFirst == TailOffset(PacketHeader, 0, Len(PacketHeader) + 1)
PacketContext == read_header_sets(NewMXFContext, PacketHeader, 1, 0).mxf

InitPacket ==
    /\ pb = NewIO
    /\ sz = IdleSz
    /\ eb = IdleEb
    /\ sk = IdleSk
    /\ mk = IdleMk
    /\ \E tail \in PacketFiles :
          LET p == mxf_parse_structural_metadata(PacketContext)
          IN  mx = [NewMx EXCEPT !.pos = PacketFirst,
                                 !.first = PacketFirst,
                                 !.tail = tail,
                                 !.stop = tail[1].name,
                                 !.mxf = PacketContext,
                                 !.streams = p.streams,
                                 !.ret = p.ret,
                                 !.phase = "opened"]

NextPacket == ReadPacket

SpecPacket == InitPacket /\ [][NextPacket]_vars

\* the KLVs of the file at or after the offset from, and the first essence
\* element among them
KlvsFrom(m, from) == {n \in Idx(m.tail) : TailOffset(m.tail, m.first, n) >= from}
EssenceFrom(m, from) == {n \in KlvsFrom(m, from) : IsEssence(m.tail[n])}
\* the next essence element from the offset has the track number of no stream
UnknownNumber(m, from) ==
    /\ EssenceFrom(m, from) # {}
    /\ StreamsOf(m.streams,
                 SubSeq(m.tail[MinOf(EssenceFrom(m, from))].key, 13, 16)) = {}

\* what the claim says of the call c
ResultAsClaimed(m, c) ==
    /\ c.ret = 0 => c.pkt.stream_index \in 0 .. (Len(m.streams) - 1)
    /\ UnknownNumber(m, c.from) => c.ret < 0
    /\ EssenceFrom(m, c.from) = {} => c.ret = AVERROR_IO

\* C40: mxf_read_packet returns success only with a stream_index in
\* 0 .. nb_streams - 1: when the last 4 key bytes of the essence KLV equal
\* no stream's track_number the call fails, when no essence KLV remains
\* before the end of the file it returns AVERROR_IO, and every call on a
\* finite file terminates.
C40_ReadPacketResult ==
    /\ mx.phase # "hang"
    /\ \A i \in Idx(mx.pkts) : ResultAsClaimed(mx, mx.pkts[i])

\* C40, on the files without a negative and without a malformed length:
\* every call terminates and returns what the claim says
C40_WellFormedFiles ==
    (\A n \in Idx(mx.tail) : mx.tail[n] \notin {BadKlv, BackKlv}) =>
        C40_ReadPacketResult

\* C40, on the files without a negative length: every call terminates,
\* success comes with a stream_index in range and an unknown track number
\* fails; AVERROR_IO is returned when neither an essence element nor a
\* malformed length remains
C40_ForwardFiles ==
    (\A n \in Idx(mx.tail) : mx.tail[n] # BackKlv) =>
        /\ mx.phase # "hang"
        /\ \A i \in Idx(mx.pkts) :
              LET c == mx.pkts[i]
              IN  /\ c.ret = 0 => c.pkt.stream_index \in 0 .. (Len(mx.streams) - 1)
                  /\ UnknownNumber(mx, c.from) => c.ret < 0
                  /\ (\A n \in KlvsFrom(mx, c.from) :
                         ~IsEssence(mx.tail[n]) /\ ~Malformed(mx.tail[n]))
                        => c.ret = AVERROR_IO

\* C40: a call on a file of two streams returned failure at an essence
\* element of an unknown track number, after a call that returned a packet
\* of the second stream
C40_Reached ==
    /\ Len(mx.streams) = 2
    /\ Len(mx.pkts) = 2
    /\ mx.pkts[1].ret = 0
    /\ mx.pkts[1].pkt.stream_index = 1
    /\ mx.pkts[2].ret = -1
    /\ mx.pkts[2].pkt.stream_index = -1
    /\ UnknownNumber(mx, mx.pkts[2].from)


\* C40: the first call on a file whose first KLV after the header has the
\* length -25 does not end
C40_CallDoesNotEnd ==
    /\ mx.phase = "hang"
    /\ mx.tail[1] = BackKlv
    /\ mx.pkts = <<>>

=============================================================================
